---- MODULE Spec2Model ----
(***************************************************************************)
(* State-machine model of river_permit_bot.py.                             *)
(*                                                                         *)
(* The availability engine: RiverPermitMonitor.__init__, _load_state,      *)
(* _save_state, check_division_availability and check_and_notify, driven   *)
(* by the run() loop, together with process stop and restart.              *)
(*                                                                         *)
(* The permit registry: PermitConfigManager with its document on disk,     *)
(* division discovery, and the Telegram command handlers that              *)
(* _process_telegram_update dispatches to.                                 *)
(*                                                                         *)
(* A calendar date is a tuple <<year, month, day>>.  A Python string that  *)
(* holds a date is the sequence of the digits of its text; the '-' signs   *)
(* of '%Y-%m-%d' stand at fixed places and are left out.                   *)
(***************************************************************************)
EXTENDS Integers, Sequences, FiniteSets, TLC

\* ------------------------------------------------------------------ bounds

\* Largest 'remaining' count the provider reports for a date.
MaxRemaining == 2

\* Number of inbound updates a behaviour processes.
MaxUpdates == 2

\* The run() loop is followed for this many seconds.
MaxTime == 130

\* Telegram hands out update_id 1 up to this one.
MaxUpdateId == 3

\* The provider's dates: two days whose day numbers have different lengths,
\* so that text order and calendar order can disagree when the text is not
\* zero padded.
Dates == { <<2025, 7, 9>>, <<2025, 7, 10>> }

\* The clock readings (month, day) taken by datetime.now(): one for which
\* the three-month window exists, one whose day is missing three months
\* later, and one whose month + 3 is past December.
Todays == { <<1, 15>>, <<1, 31>>, <<11, 5>> }

\* ------------------------------------------------- the permit registry

\* DEFAULT_PERMITS: the permit and its divisions, in dictionary order.
DEFAULT_PERMITS ==
    << [id |-> "250014", divisions |-> << "371", "380" >>] >>

\* A registry with one division left (after /unmonitor_division 250014 371).
SingleDivision == << [id |-> "250014", divisions |-> << "380" >>] >>

\* Registries the configuration file can hold at start-up.
Registries == { DEFAULT_PERMITS, SingleDivision }

\* state_key = f"{permit_id}:{division_id}"
StateKey(permit_id, division_id) == << permit_id, division_id >>

AllKeys == { StateKey("250014", "371"), StateKey("250014", "380") }

\* ------------------------------------------------------------ date text

Pad2(n) == << n \div 10, n % 10 >>

Pad4(n) == << n \div 1000, (n \div 100) % 10, (n \div 10) % 10, n % 10 >>

\* date_obj.strftime('%Y-%m-%d')
Strftime(dt) == Pad4(dt[1]) \o Pad2(dt[2]) \o Pad2(dt[3])

\* datetime.strptime(date, '%Y-%m-%d'): the date a text stands for.
Strptime(s) == CHOOSE dt \in Dates : Strftime(dt) = s

DateStrings == { Strftime(dt) : dt \in Dates }

\* Python's order on str: lexicographic, a proper prefix first.
StrLess(a, b) ==
    \E i \in 1..(Len(a) + 1) :
        /\ \A j \in 1..(i - 1) : j <= Len(b) /\ a[j] = b[j]
        /\ \/ i = Len(a) + 1 /\ Len(b) >= i
           \/ i <= Len(a) /\ i <= Len(b) /\ a[i] < b[i]

RECURSIVE SortedDesc(_)
\* A plausible slip: sorted(new_dates, reverse=True).
SortedDesc(S) ==
    IF S = {} THEN << >>
    ELSE LET m == CHOOSE x \in S : \A y \in S \ {x} : StrLess(y, x)
         IN  << m >> \o SortedDesc(S \ {m})

RECURSIVE Sorted(_)
\* sorted(new_dates): ascending in the order of str.
Sorted(S) ==
    IF S = {} THEN << >>
    ELSE LET m == CHOOSE x \in S : \A y \in S \ {x} : StrLess(x, y)
         IN  << m >> \o Sorted(S \ {m})

\* ------------------------------------------------------- dictionaries

\* A dict is a function; the empty dict is the empty function.
EmptyDict == << >>

\* A plausible slip: the stored set is not looked up, every division is
\* diffed against the empty set.
GetNothing(d, k) == {}

\* d.get(k, set())
Get(d, k) == IF k \in DOMAIN d THEN d[k] ELSE {}

\* A plausible slip: d[k] |= v, the new dates added to the old ones.
PutUnion(d, k, v) ==
    [x \in DOMAIN d \cup {k} |-> IF x = k THEN Get(d, k) \cup v ELSE d[x]]

\* d[k] = v
Put(d, k, v) == [x \in DOMAIN d \cup {k} |-> IF x = k THEN v ELSE d[x]]

\* The lists a set can be written as: list(v) gives the elements once each,
\* in the iteration order of the set.
ListsOf(S) ==
    { q \in [1..Cardinality(S) -> S] : { q[i] : i \in DOMAIN q } = S }

\* set(v) of a list
SetOf(q) == { q[i] : i \in DOMAIN q }

\* ----------------------------------------------------- the state file

\* STATE_FILE on disk: absent, unreadable as the expected JSON, or the JSON
\* document {"<permit_id>:<division_id>": [date, ...]}.
MissingFile == [kind |-> "missing", data |-> EmptyDict]

CorruptFile == [kind |-> "corrupt", data |-> EmptyDict]

JsonFile(data) == [kind |-> "json", data |-> data]

\* The documents _save_state can have written for the divisions keys.
JsonDocumentsOf(keys) ==
    UNION { [K -> UNION { ListsOf(S) : S \in SUBSET DateStrings }] :
            K \in SUBSET keys }

JsonDocuments == JsonDocumentsOf(AllKeys)

\* A plausible slip: keys whose list is empty are not taken over.
LoadStateNonEmpty(file) ==
    IF file.kind = "json"
    THEN [k \in { x \in DOMAIN file.data : file.data[x] # << >> } |->
            SetOf(file.data[k])]
    ELSE EmptyDict

\* _load_state: the file's lists as sets; {} when the file is absent or
\* when reading it raises.
LoadState(file) ==
    IF file.kind = "json"
    THEN [k \in DOMAIN file.data |-> SetOf(file.data[k])]
    ELSE EmptyDict

\* is_first_run = not os.path.exists(STATE_FILE)
IsFirstRun(file) == file.kind = "missing"

\* What open(STATE_FILE, 'w') and json.dump can do to the file.
WriteOutcomes == { "written", "open_failed", "partial" }

\* _save_state: the file after the attempt.  A failed open leaves the file
\* as it was; a write that fails after the open truncated the file leaves
\* an unreadable document.  The exception is swallowed in every case.
SaveState(file, data, outcome) ==
    CASE outcome = "written"     -> JsonFile(data)
      [] outcome = "open_failed" -> file
      [] outcome = "partial"     -> CorruptFile

\* The documents json.dump can write for the in-memory store.
Serialisations(store) ==
    { doc \in [DOMAIN store -> UNION { ListsOf(S) : S \in SUBSET DateStrings }] :
        \A k \in DOMAIN store : doc[k] \in ListsOf(store[k]) }

\* ------------------------------------------------- the provider's answer

\* date_availability: some of the dates, each with its 'remaining'.
AvailMaps == UNION { [S -> 0..MaxRemaining] : S \in SUBSET Dates }

\* What session.get(...) and resp.json() can give: the expected payload, a
\* non-200 status, an exception (timeout, connection error, a body that is
\* not JSON, an entry without 'total'), or JSON without the payload.
Responses ==
    { [kind |-> "ok", avail |-> f] : f \in AvailMaps }
    \cup { [kind |-> k, avail |-> EmptyDict] :
           k \in { "non_200", "exception", "no_payload" } }

DaysInMonth(m) ==
    IF m = 2 THEN 28 ELSE IF m \in {4, 6, 9, 11} THEN 30 ELSE 31

\* today.replace(month=today.month + 3) raises ValueError when the month is
\* past 12 or the day does not exist in that month; it runs before the try.
WindowRaises(today) ==
    \/ today[1] + 3 > 12
    \/ today[2] > DaysInMonth(today[1] + 3)

\* A plausible slip: the 'remaining > 0' test left out.
AvailableDatesUnfiltered(resp) ==
    IF resp.kind = "ok"
    THEN [s \in { Strftime(dt) : dt \in DOMAIN resp.avail } |->
            resp.avail[Strptime(s)]]
    ELSE EmptyDict

\* check_division_availability after the window is built: the dict from
\* date text to 'remaining' of the dates with remaining > 0, and {} for
\* every failure.
AvailableDates(resp) ==
    IF resp.kind = "ok"
    THEN [s \in { Strftime(dt) : dt \in { x \in DOMAIN resp.avail :
                                            resp.avail[x] > 0 } } |->
            resp.avail[Strptime(s)]]
    ELSE EmptyDict

\* ------------------------------------------------------- notification

\* What requests.post to the channel can do; "none" where no message is
\* sent.
TelegramOutcomes == { "200", "non_200", "exception" }

\* A plausible slip: the except clause missing, the exception propagates.
SendTelegramMessageRaises(outcome) ==
    IF outcome = "exception" THEN "raised" ELSE "returned"

\* send_telegram_message: every outcome is logged and the call returns.
SendTelegramMessage(outcome) == "returned"

\* A plausible slip: every current date reported, no difference taken.
NewDatesAll(current_available, previous_available) == current_available

\* new_dates = current_available - previous_available
NewDates(current_available, previous_available) ==
    current_available \ previous_available

\* The lines of the message: for date in sorted(new_dates), the date read
\* back from its text and the 'remaining' of current_dates[date].
MessageLines(new_dates, current_dates) ==
    LET order == Sorted(new_dates)
    IN  [i \in 1..Len(order) |->
            [date |-> Strptime(order[i]), remaining |-> current_dates[order[i]]]]

\* The (permit, division) keys in the order check_and_notify visits them.
RECURSIVE CycleKeys(_)
CycleKeys(reg) ==
    IF reg = << >> THEN << >>
    ELSE [i \in 1..Len(Head(reg).divisions) |->
            StateKey(Head(reg).id, Head(reg).divisions[i])]
         \o CycleKeys(Tail(reg))

\* ------------------------------------------------------- command text

\* The text of an inbound message is the sequence of its characters.
Space == " "

DigitChars == { "0", "1", "2", "3", "4", "5", "6", "7", "8", "9" }

DigitValue ==
    "0" :> 0 @@ "1" :> 1 @@ "2" :> 2 @@ "3" :> 3 @@ "4" :> 4 @@
    "5" :> 5 @@ "6" :> 6 @@ "7" :> 7 @@ "8" :> 8 @@ "9" :> 9

DigitChar == [d \in 0..9 |-> CHOOSE c \in DigitChars : DigitValue[c] = d]

\* The characters of a text as one string value.
RECURSIVE Str(_)
Str(cs) == IF cs = << >> THEN "" ELSE Head(cs) \o Str(Tail(cs))

\* str.startswith.
StartsWith(text, prefix) ==
    /\ Len(text) >= Len(prefix)
    /\ SubSeq(text, 1, Len(prefix)) = prefix

\* str.strip() for the blanks the model's texts hold.
RECURSIVE LStrip(_)
LStrip(text) ==
    IF text # << >> /\ Head(text) = Space THEN LStrip(Tail(text)) ELSE text

RECURSIVE RStrip(_)
RStrip(text) ==
    IF text # << >> /\ text[Len(text)] = Space
    THEN RStrip(SubSeq(text, 1, Len(text) - 1))
    ELSE text

Strip(text) == LStrip(RStrip(text))

\* The length of the first word of a text that does not begin with a blank.
RECURSIVE WordLen(_)
WordLen(text) ==
    IF text = << >> \/ Head(text) = Space THEN 0 ELSE 1 + WordLen(Tail(text))

\* str.split(maxsplit=maxsplit) on whitespace: after maxsplit splits the
\* rest of the text is one word, blanks at its end included; maxsplit = -1
\* splits at every run of blanks, as str.split() does.
RECURSIVE Split(_, _)
Split(text, maxsplit) ==
    LET rest == LStrip(text)
        n == WordLen(rest)
    IN  IF rest = << >> THEN << >>
        ELSE IF maxsplit = 0 THEN << rest >>
        ELSE << SubSeq(rest, 1, n) >>
             \o Split(SubSeq(rest, n + 1, Len(rest)), maxsplit - 1)

\* The value of a run of decimal digits.
RECURSIVE DigitsValue(_)
DigitsValue(cs) ==
    IF cs = << >> THEN 0
    ELSE 10 * DigitsValue(SubSeq(cs, 1, Len(cs) - 1)) + DigitValue[cs[Len(cs)]]

\* A plausible slip: a token that is no number is read as division 0.
ParseIntLenient(token) ==
    [ok |-> TRUE,
     n |-> IF token = << >> \/ \E i \in DOMAIN token : token[i] \notin DigitChars
           THEN 0 ELSE DigitsValue(token)]

\* int(token) of lines 631 and 703: the number a token of decimal digits
\* with an optional sign denotes; ok is FALSE where int raises ValueError.
ParseInt(token) ==
    LET signed == token # << >> /\ Head(token) \in { "+", "-" }
        digits == IF signed THEN Tail(token) ELSE token
    IN  IF digits = << >> \/ \E i \in DOMAIN digits : digits[i] \notin DigitChars
        THEN [ok |-> FALSE, n |-> 0]
        ELSE [ok |-> TRUE,
              n |-> IF signed /\ Head(token) = "-"
                    THEN 0 - DigitsValue(digits)
                    ELSE DigitsValue(digits)]

\* str(n) of an int: its decimal text.
RECURSIVE PyStr(_)
PyStr(n) ==
    IF n < 0 THEN "-" \o PyStr(0 - n)
    ELSE IF n < 10 THEN DigitChar[n]
    ELSE PyStr(n \div 10) \o DigitChar[n % 10]

\* ------------------------------------------------- ordered dictionaries

\* A Python dict whose order matters is the sequence of its items
\* [k |-> key, v |-> value], in insertion order, keys distinct.
Has(d, k) == \E i \in DOMAIN d : d[i].k = k

GetItem(d, k) == d[CHOOSE i \in DOMAIN d : d[i].k = k].v

\* d[k] = v: the value is replaced in place, a new key goes to the end.
SetItem(d, k, v) ==
    IF Has(d, k)
    THEN [i \in DOMAIN d |-> IF d[i].k = k THEN [k |-> k, v |-> v] ELSE d[i]]
    ELSE Append(d, [k |-> k, v |-> v])

\* del d[k].
DelItem(d, k) == SelectSeq(d, LAMBDA e : e.k # k)

Keys(d) == { d[i].k : i \in DOMAIN d }

\* A division ID as a dictionary key: the int the probe and the command
\* handlers use, or the str a JSON document holds.
IntKey(n) == [t |-> "int", n |-> n, s |-> ""]

StrKey(s) == [t |-> "str", n |-> 0, s |-> s]

\* f"{division_id}" and the key json.dump writes for a division ID.
KeyText(key) == IF key.t = "int" THEN PyStr(key.n) ELSE key.s

\* ------------------------------------------------- the permit registry

\* PermitConfigManager.permits is a dict permit_id -> permit object, and a
\* permit object {"name", "divisions"} is shared by every dict that holds
\* it: the top-level dict is a sequence of items whose values are addresses,
\* heap maps an address to the object that lives there.
NoObjects == << >>

\* The smallest address no object lives at.
Alloc(heap) == CHOOSE a \in 1..(Len(heap) + 1) : a \notin DOMAIN heap

\* dict.copy(): a new top-level dict holding the same objects.
Copy(top) == [i \in DOMAIN top |-> [k |-> top[i].k, v |-> top[i].v]]

\* The registry as a value: every permit with its name and divisions.
Deep(top, heap) == [i \in DOMAIN top |-> [k |-> top[i].k, v |-> heap[top[i].v]]]

\* The objects a top-level dict reaches, moved to the addresses 1..n in
\* the dict's order; objects nothing refers to are dropped.
Compact(top, heap) ==
    [permits |-> [i \in DOMAIN top |-> [k |-> top[i].k, v |-> i]],
     heap |-> [i \in DOMAIN top |-> heap[top[i].v]]]

\* DEFAULT_PERMITS, lines 30-38, as objects: int division IDs.
DefaultRegistry ==
    [permits |-> << [k |-> "250014", v |-> 1] >>,
     heap |-> << [name |-> "Dinosaur Green And Yampa River Permits",
                  divisions |->
                      << [k |-> IntKey(371), v |-> "Deerlodge Park, Yampa River"],
                         [k |-> IntKey(380), v |-> "Gates of Lodore, Green River"] >>] >>]

\* json.dump(permits): the document of a registry; a division ID is
\* written as its text, so an int key and a str key of the same text give
\* two members of the same name.
JsonDump(top, heap) ==
    [i \in DOMAIN top |->
        [k |-> top[i].k,
         v |-> [name |-> heap[top[i].v].name,
                divisions |->
                    LET divs == heap[top[i].v].divisions
                    IN  [j \in DOMAIN divs |->
                            [k |-> KeyText(divs[j].k), v |-> divs[j].v]]]]]

\* The dict json.load builds from the members of an object: keys are str,
\* a repeated name keeps its first place and its last value.
RECURSIVE FromMembers(_)
FromMembers(members) ==
    IF members = << >> THEN << >>
    ELSE LET m == members[Len(members)]
         IN  SetItem(FromMembers(SubSeq(members, 1, Len(members) - 1)),
                     StrKey(m.k), m.v)

\* json.load(f) of a registry document: new objects, str division IDs.
JsonLoad(doc) ==
    [permits |-> [i \in DOMAIN doc |-> [k |-> doc[i].k, v |-> i]],
     heap |-> [i \in DOMAIN doc |->
                  [name |-> doc[i].v.name,
                   divisions |-> FromMembers(doc[i].v.divisions)]]]

\* A plausible slip: self.permits = permits before the write is tried.
SavePermitsAssignFirst(m, new_permits, heap, write) ==
    [permits |-> new_permits, heap |-> heap,
     file |-> IF write = "written" THEN JsonFile(JsonDump(new_permits, heap))
              ELSE IF write = "partial" THEN CorruptFile ELSE m.file]

\* PermitConfigManager._save_permits, lines 74-82: the document is written
\* and self.permits set, or the write raises and self.permits keeps the
\* dict it referred to.
SavePermits(m, new_permits, heap, write) ==
    IF write = "written"
    THEN [permits |-> new_permits, heap |-> heap,
          file |-> JsonFile(JsonDump(new_permits, heap))]
    ELSE [permits |-> m.permits, heap |-> heap,
          file |-> IF write = "partial" THEN CorruptFile ELSE m.file]

\* A plausible slip: True returned on every path of a method.
ReturnedTrue(s, result) ==
    [permits |-> Compact(s.permits, s.heap).permits,
     heap |-> Compact(s.permits, s.heap).heap,
     file |-> s.file, result |-> TRUE]

\* A manager state m = [permits, heap, file] after a method, objects nothing
\* refers to collected, and the value the method returned.
Returned(s, result) ==
    [permits |-> Compact(s.permits, s.heap).permits,
     heap |-> Compact(s.permits, s.heap).heap,
     file |-> s.file, result |-> result]

\* A plausible slip: get_permits hands out a new, empty dict.
GetPermitsEmpty(m) == << >>

\* PermitConfigManager.get_permits, lines 84-86.
GetPermits(m) == Copy(m.permits)

\* PermitConfigManager.add_permit, lines 88-101.
AddPermit(m, permit_id, name, divisions, write) ==
    LET a == Alloc(m.heap)
        heap == [x \in DOMAIN m.heap \cup {a} |->
                    IF x = a THEN [name |-> name, divisions |-> divisions]
                    ELSE m.heap[x]]
        new_permits == SetItem(Copy(m.permits), permit_id, a)
    IN  Returned(SavePermits(m, new_permits, heap, write), TRUE)

\* A plausible slip: the new registry is built empty, not from a copy.
RemovePermitAll(m, permit_id, write) ==
    IF ~Has(m.permits, permit_id) THEN Returned(m, FALSE)
    ELSE Returned(SavePermits(m, << >>, m.heap, write), TRUE)

\* PermitConfigManager.remove_permit, lines 103-117.
RemovePermit(m, permit_id, write) ==
    IF ~Has(m.permits, permit_id) THEN Returned(m, FALSE)
    ELSE LET new_permits == DelItem(Copy(m.permits), permit_id)
         IN  Returned(SavePermits(m, new_permits, m.heap, write), TRUE)

\* PermitConfigManager.add_division, lines 119-132: the division goes into
\* the permit object that new_permits and self.permits share.
AddDivision(m, permit_id, division_id, division_name, write) ==
    IF ~Has(m.permits, permit_id) THEN Returned(m, FALSE)
    ELSE LET new_permits == Copy(m.permits)
             a == GetItem(new_permits, permit_id)
             heap == [m.heap EXCEPT ![a].divisions =
                         SetItem(@, division_id, division_name)]
         IN  Returned(SavePermits(m, new_permits, heap, write), TRUE)

\* PermitConfigManager.remove_division, lines 134-157: the division is
\* deleted in the shared permit object, the permit in new_permits alone.
RemoveDivision(m, permit_id, division_id, write) ==
    IF ~Has(m.permits, permit_id) THEN Returned(m, FALSE)
    ELSE IF ~Has(m.heap[GetItem(m.permits, permit_id)].divisions, division_id)
    THEN Returned(m, FALSE)
    ELSE LET copied == Copy(m.permits)
             a == GetItem(copied, permit_id)
             heap == [m.heap EXCEPT ![a].divisions = DelItem(@, division_id)]
             new_permits == IF heap[a].divisions = << >>
                            THEN DelItem(copied, permit_id)
                            ELSE copied
         IN  Returned(SavePermits(m, new_permits, heap, write), TRUE)

\* PermitConfigManager.list_permits, lines 159-167: one entry per permit,
\* its id, name and divisions.
ListPermits(m) == Deep(m.permits, m.heap)

\* A plausible slip: the defaults are returned and never written.
LoadPermitsUnsaved(file, write) ==
    IF file.kind = "json"
    THEN [permits |-> JsonLoad(file.data).permits,
          heap |-> JsonLoad(file.data).heap, file |-> file]
    ELSE [permits |-> Copy(DefaultRegistry.permits),
          heap |-> DefaultRegistry.heap, file |-> file]

\* PermitConfigManager.__init__ and _load_permits, lines 56-72: the
\* document when the file holds one; otherwise the defaults, which are
\* written to the file.
LoadPermits(file, write) ==
    IF file.kind = "json"
    THEN [permits |-> JsonLoad(file.data).permits,
          heap |-> JsonLoad(file.data).heap, file |-> file]
    ELSE [permits |-> Copy(DefaultRegistry.permits),
          heap |-> DefaultRegistry.heap,
          file |-> SavePermits([permits |-> << >>, file |-> file],
                               DefaultRegistry.permits, DefaultRegistry.heap,
                               write).file]

\* The permits and division IDs as check_and_notify reads them from
\* get_permits(): f"{permit_id}:{division_id}" takes the text of the ID.
PermitsView(top, heap) ==
    [i \in DOMAIN top |->
        [id |-> top[i].k,
         divisions |-> LET divs == heap[top[i].v].divisions
                       IN  [j \in DOMAIN divs |-> KeyText(divs[j].k)]]]

\* ------------------------------------------------ provider, discovery

\* What the provider does during one command: details is the permit name
\* get_permit_details finds ("none": no answer), valid the division IDs
\* whose availability endpoint answers with the expected structure, named
\* whether the permit endpoint lists the divisions' names, status the
\* answer of the permit endpoint to the validation request of line 219,
\* probe what session.get does for the availability endpoint ("exception":
\* every request raises).
Providers ==
    { [details |-> "Rio Chama", valid |-> {371, 380}, named |-> TRUE, status |-> "200",
       probe |-> "answers"],
      [details |-> "Rio Chama", valid |-> {371}, named |-> FALSE, status |-> "200",
       probe |-> "answers"],
      [details |-> "none", valid |-> {5, 371}, named |-> FALSE, status |-> "200",
       probe |-> "answers"],
      [details |-> "none", valid |-> {371, 1000}, named |-> TRUE, status |-> "200",
       probe |-> "answers"],
      [details |-> "none", valid |-> {100}, named |-> FALSE, status |-> "200",
       probe |-> "answers"],
      [details |-> "Rio Chama", valid |-> {}, named |-> FALSE, status |-> "200",
       probe |-> "answers"],
      [details |-> "none", valid |-> {}, named |-> FALSE, status |-> "404",
       probe |-> "answers"],
      [details |-> "none", valid |-> {}, named |-> FALSE, status |-> "exception",
       probe |-> "answers"],
      [details |-> "none", valid |-> {371}, named |-> TRUE, status |-> "exception",
       probe |-> "exception"] }

\* The provider behaviours the command handlers are run against.
CommandProviders ==
    { p \in Providers :
        \/ p.valid = {371, 380}
        \/ p.valid = {371} /\ ~p.named
        \/ p.valid = {} /\ p.status = "404" }

\* RiverPermitMonitor.get_permit_details, lines 370-397, as the name the
\* handlers take from it: permit_details['name'] or f"Permit {permit_id}".
PermitName(provider, permit_id) ==
    IF provider.details = "none" THEN "Permit " \o permit_id
    ELSE provider.details

\* RiverPermitMonitor.get_division_details, lines 399-441: the name from
\* the permit endpoint, or None after the availability endpoint was asked
\* as well; requests counts the provider requests made.
GetDivisionDetails(provider, division_id) ==
    IF provider.named
    THEN [name |-> "Discovered", requests |-> 1]
    ELSE [name |-> "none", requests |-> 2]

\* A plausible slip: _test_division without its try/except.
TestDivisionUncaught(provider, division_id) ==
    [raised |-> provider.probe = "exception",
     value |-> provider.probe = "answers" /\ division_id \in provider.valid]

\* PermitConfigManager._test_division, lines 231-260: True for a 200
\* answer of the expected structure; an exception of the request or of the
\* decoding is caught at line 257 and gives False, so nothing is raised.
TestDivision(provider, division_id) ==
    LET request == IF provider.probe = "exception" THEN "exception"
                   ELSE IF division_id \in provider.valid THEN "structured"
                   ELSE "other"
    IN  IF request = "exception"
        THEN [raised |-> FALSE, value |-> FALSE]
        ELSE [raised |-> FALSE, value |-> request = "structured"]

\* The division IDs _test_division returns True for.
ValidIds(provider) ==
    { v \in provider.valid : TestDivision(provider, v).value }

\* test_ranges, lines 179-183, and the fallback IDs of line 208.
Range(a, b) == [i \in 1..(b - a) |-> a + i - 1]

\* A plausible slip: the last range closed at both ends.
TestRangesInclusive == << Range(1, 20), Range(300, 400), Range(1000, 1101) >>

TestRanges == << Range(1, 20), Range(300, 400), Range(1000, 1100) >>

FallbackIds == << 0, 100, 200, 500, 1000 >>

Min(S) == CHOOSE x \in S : \A y \in S : x <= y

\* The inner loop of lines 186-204 over one range: each candidate is
\* tested and, if valid, recorded; the loop is left after the first
\* candidate that lies above min(divisions.keys()) + 50 once a division is
\* found.  found holds the divisions of the ranges scanned before; the
\* candidates of a range() are consecutive ints in ascending order.
ScanRange(candidates, found, valid) ==
    LET FoundAt(i) ==
            found \cup { v \in valid : candidates[1] <= v /\ v <= candidates[i] }
        breaks == { i \in DOMAIN candidates :
                      /\ FoundAt(i) # {}
                      /\ candidates[i] > Min(FoundAt(i)) + 50 }
        last == IF breaks = {} THEN Len(candidates) ELSE Min(breaks)
    IN  [found |-> FoundAt(last), probed |-> SubSeq(candidates, 1, last)]

\* The outer loop of line 185: the break leaves one range, the next range
\* is scanned all the same.
RECURSIVE ScanRanges(_, _, _)
ScanRanges(ranges, found, valid) ==
    IF ranges = << >> THEN [found |-> found, probed |-> << >>]
    ELSE LET first == ScanRange(Head(ranges), found, valid)
             rest == ScanRanges(Tail(ranges), first.found, valid)
         IN  [found |-> rest.found, probed |-> first.probed \o rest.probed]

\* The fallback loop of lines 208-213: it stops at the first valid ID.
RECURSIVE ScanFallback(_, _)
ScanFallback(candidates, valid) ==
    IF candidates = << >> THEN [found |-> {}, probed |-> << >>]
    ELSE IF Head(candidates) \in valid
         THEN [found |-> { Head(candidates) }, probed |-> << Head(candidates) >>]
         ELSE LET rest == ScanFallback(Tail(candidates), valid)
              IN  [found |-> rest.found,
                   probed |-> << Head(candidates) >> \o rest.probed]

\* The name discover_divisions gives a division, lines 189-196 and 210-211.
DiscoveredName(provider, permit_name, div_id, fallback) ==
    IF provider.named THEN "Discovered"
    ELSE IF fallback \/ permit_name = "" THEN "Division " \o PyStr(div_id)
    ELSE permit_name \o " Div " \o PyStr(div_id)

\* A set of ints as the sequence of its members in ascending order.
RECURSIVE Ascending(_)
Ascending(S) ==
    IF S = {} THEN << >> ELSE << Min(S) >> \o Ascending(S \ { Min(S) })

\* PermitConfigManager.discover_divisions, lines 169-229: the divisions
\* found, keyed by int, the error messages, the candidates probed in
\* order, and the number of permit endpoint requests made.
DiscoverDivisions(provider, permit_name) ==
    LET ranged == ScanRanges(TestRanges, {}, ValidIds(provider))
        fallback == IF ranged.found = {}
                    THEN ScanFallback(FallbackIds, ValidIds(provider))
                    ELSE [found |-> {}, probed |-> << >>]
        found == ranged.found \cup fallback.found
        order == Ascending(found)
        errors == IF found # {} THEN << >>
                  ELSE IF provider.status = "404"
                       THEN << "not found", "not a valid permit" >>
                  ELSE IF provider.status = "exception"
                       THEN << "error validating permit" >>
                  ELSE << "no valid divisions", "may not use the division system" >>
    IN  [divisions |->
             [i \in DOMAIN order |->
                 [k |-> IntKey(order[i]),
                  v |-> DiscoveredName(provider, permit_name, order[i],
                                       ranged.found = {})]],
         errors |-> errors,
         probed |-> ranged.probed \o fallback.probed,
         lookups |-> Cardinality(found) + (IF found = {} THEN 1 ELSE 0)]

\* ----------------------------------------------------- command handlers

\* A reply is one send_telegram_message call of a handler: its kind and
\* the error lines it carries.
Reply(kind) == [kind |-> kind, errors |-> << >>]

\* What a handler leaves: the manager, the replies sent in order, the
\* number of provider requests made and the candidates the probe tested.
Handled(m, replies, requests, probed) ==
    [permits |-> m.permits, heap |-> m.heap, file |-> m.file,
     replies |-> replies, requests |-> requests, probed |-> probed]

\* RiverPermitMonitor._handle_start_monitoring, lines 510-572.
HandleStartMonitoring(m, command, provider, write) ==
    LET parts == Split(command, 2)
    IN  IF Len(parts) < 2 THEN Handled(m, << Reply("usage") >>, 0, << >>)
        ELSE
        LET permit_id == Str(parts[2])
            current_permits == GetPermits(m)
        IN  IF Has(current_permits, permit_id)
            THEN Handled(m, << Reply("already_monitoring") >>, 0, << >>)
            ELSE
            LET given == Len(parts) > 2
                permit_name == IF given THEN Str(parts[3])
                               ELSE PermitName(provider, permit_id)
                before == IF given THEN << >>
                          ELSE << Reply("discovering_permit") >>
                found == DiscoverDivisions(provider, permit_name)
                requests == (IF given THEN 0 ELSE 1)
                            + Len(found.probed) + found.lookups
                progress == before \o << Reply("discovering_divisions") >>
            IN  IF found.divisions # << >>
                THEN LET added == AddPermit(m, permit_id, permit_name,
                                            found.divisions, write)
                     IN  Handled(added,
                                 progress \o << Reply(IF added.result
                                                      THEN "started"
                                                      ELSE "add_failed") >>,
                                 requests, found.probed)
                ELSE Handled(m,
                             progress \o << [kind |-> "discover_failed",
                                             errors |-> found.errors] >>,
                             requests, found.probed)

\* RiverPermitMonitor._handle_stop_monitoring, lines 574-602.
HandleStopMonitoring(m, command, write) ==
    LET parts == Split(command, -1)
    IN  IF Len(parts) # 2 THEN Handled(m, << Reply("usage") >>, 0, << >>)
        ELSE IF ~Has(GetPermits(m), Str(parts[2]))
        THEN Handled(m, << Reply("not_monitoring") >>, 0, << >>)
        ELSE LET removed == RemovePermit(m, Str(parts[2]), write)
             IN  Handled(removed,
                         << Reply(IF removed.result THEN "stopped"
                                  ELSE "remove_failed") >>, 0, << >>)

\* RiverPermitMonitor._handle_list_permits, lines 604-614.
HandleListPermits(m) ==
    Handled(m, << Reply(IF ListPermits(m) # << >> THEN "list" ELSE "list_empty") >>,
            0, << >>)

\* RiverPermitMonitor._handle_help, lines 746-768.
HandleHelp(m) == Handled(m, << Reply("help") >>, 0, << >>)

\* RiverPermitMonitor._handle_monitor_division, lines 616-688.
HandleMonitorDivision(m, command, provider, write) ==
    LET parts == Split(command, 3)
    IN  IF Len(parts) < 3 THEN Handled(m, << Reply("usage") >>, 0, << >>)
        ELSE IF ~ParseInt(parts[3]).ok
        THEN Handled(m, << Reply("not_a_number") >>, 0, << >>)
        ELSE
        LET permit_id == Str(parts[2])
            division_id == IntKey(ParseInt(parts[3]).n)
            given == Len(parts) > 3
            details == GetDivisionDetails(provider, division_id.n)
            division_name ==
                IF given THEN Str(parts[4])
                ELSE IF details.name # "none" THEN details.name
                ELSE "Division " \o PyStr(division_id.n)
            before == IF given THEN << >>
                      ELSE << Reply("discovering_division") >>
            asked == IF given THEN 0 ELSE details.requests
            current_permits == GetPermits(m)
        IN  IF ~Has(current_permits, permit_id)
            THEN LET added == AddPermit(m, permit_id,
                                        PermitName(provider, permit_id),
                                        << [k |-> division_id, v |-> division_name] >>,
                                        write)
                 IN  Handled(added,
                             before \o << Reply("discovering_permit"),
                                          Reply(IF added.result THEN "created"
                                                ELSE "create_failed") >>,
                             asked + 1, << >>)
            ELSE IF Has(m.heap[GetItem(current_permits, permit_id)].divisions,
                        division_id)
            THEN Handled(m, before \o << Reply("already_monitoring") >>,
                         asked, << >>)
            ELSE LET added == AddDivision(m, permit_id, division_id,
                                          division_name, write)
                 IN  Handled(added,
                             before \o << Reply(IF added.result
                                                THEN "added_division"
                                                ELSE "add_division_failed") >>,
                             asked, << >>)

\* RiverPermitMonitor._handle_unmonitor_division, lines 690-744.
HandleUnmonitorDivision(m, command, write) ==
    LET parts == Split(command, -1)
    IN  IF Len(parts) # 3 THEN Handled(m, << Reply("usage") >>, 0, << >>)
        ELSE IF ~ParseInt(parts[3]).ok
        THEN Handled(m, << Reply("not_a_number") >>, 0, << >>)
        ELSE
        LET permit_id == Str(parts[2])
            division_id == IntKey(ParseInt(parts[3]).n)
            current_permits == GetPermits(m)
        IN  IF ~Has(current_permits, permit_id)
            THEN Handled(m, << Reply("not_monitoring") >>, 0, << >>)
            ELSE IF ~Has(m.heap[GetItem(current_permits, permit_id)].divisions,
                         division_id)
            THEN Handled(m, << Reply("not_monitoring_division") >>, 0, << >>)
            ELSE LET removed == RemoveDivision(m, permit_id, division_id, write)
                 IN  Handled(removed,
                             << Reply(IF ~removed.result
                                      THEN "remove_division_failed"
                                      ELSE IF ~Has(removed.permits, permit_id)
                                      THEN "removed_last"
                                      ELSE "stopped_division") >>,
                             0, << >>)

\* The command verbs of lines 497-507.
Monitor == << "/", "m", "o", "n", "i", "t", "o", "r" >>

Unmonitor == << "/", "u", "n" >> \o Tail(Monitor)

DivisionSuffix == << "_", "d", "i", "v", "i", "s", "i", "o", "n" >>

MonitorDivision == Monitor \o DivisionSuffix

UnmonitorDivision == Unmonitor \o DivisionSuffix

List == << "/", "l", "i", "s", "t" >>

Help == << "/", "h", "e", "l", "p" >>

\* The dispatch of lines 496-508: the handler a text goes to.
Dispatch(text) ==
    IF StartsWith(text, MonitorDivision) THEN "monitor_division"
    ELSE IF StartsWith(text, UnmonitorDivision) THEN "unmonitor_division"
    ELSE IF StartsWith(text, Monitor) THEN "monitor"
    ELSE IF StartsWith(text, Unmonitor) THEN "unmonitor"
    ELSE IF text = List THEN "list"
    ELSE IF text = Help THEN "help"
    ELSE "none"

\* TELEGRAM_CHANNEL_ID, line 42, and the chats an update can come from.
TELEGRAM_CHANNEL_ID == "-1001"

Chats == { -1001, 42 }

\* A plausible slip: the sender is not looked at.
FromAnyChat(chat) == TRUE

\* Line 493: the update comes from the configured channel.
FromChannel(chat) == PyStr(chat) = TELEGRAM_CHANNEL_ID

\* RiverPermitMonitor._process_telegram_update, lines 480-508, for an
\* update [kind, chat, text]: kind "text" carries a message with a text.
ProcessTelegramUpdate(m, update, provider, write) ==
    IF update.kind # "text" THEN Handled(m, << >>, 0, << >>)
    ELSE LET text == Strip(update.text)
             handler == Dispatch(text)
         IN  IF ~FromChannel(update.chat)
             THEN Handled(m, << >>, 0, << >>)
             ELSE CASE handler = "monitor_division" ->
                           HandleMonitorDivision(m, text, provider, write)
                    [] handler = "unmonitor_division" ->
                           HandleUnmonitorDivision(m, text, write)
                    [] handler = "monitor" ->
                           HandleStartMonitoring(m, text, provider, write)
                    [] handler = "unmonitor" ->
                           HandleStopMonitoring(m, text, write)
                    [] handler = "list" -> HandleListPermits(m)
                    [] handler = "help" -> HandleHelp(m)
                    [] OTHER -> Handled(m, << >>, 0, << >>)

\* -------------------------------------------------------------- state

VARIABLES
    permits,                \* permit_manager.permits, in dictionary order
    state_file,             \* STATE_FILE on disk
    previous_availability,  \* self.previous_availability
    is_first_run,           \* self.is_first_run
    pc,                     \* "idle": run() between cycles; "cycle": inside check_and_notify
    first_cycle,            \* the branch check_and_notify took at line 775
    queue,                  \* the divisions the running cycle has yet to visit
    total_available,        \* total_available of the first-run branch
    boot,                   \* history: the file found at start-up, until the first cycle has ended
    cycle_start,            \* history: previous_availability when the cycle began
    cycle_log,              \* history: per division visited in the cycle, what was fetched and sent
    last_step,              \* history: the division visit that ran last
    last_seen,              \* history: per division, its last visit in this process
    last_end,               \* history: how the last cycle of this process ended
    emitted_run,            \* history: (division, date) delivered in this process and not seen absent since
    emitted_prior,          \* history: the same for the processes before the last restart
    registry,               \* permit_manager.permits: the top-level dict, permit_id -> address
    heap,                   \* the permit objects {"name", "divisions"} by address
    config_file,            \* PERMITS_CONFIG_FILE on disk
    last_update,            \* history: the update processed last and what its handler did
    last_call,              \* history: the manager method called last and what it returned
    polled,                 \* history: the number of updates and method calls made so far
    discovery,              \* the running call of discover_divisions: its locals and position
    sched,                  \* the run() loop: its clock, its position, last_permit_check
    inbox,                  \* the bot's updates at Telegram and the running call of check_telegram_commands
    sqlite                  \* permit-monitor.py: its database and the running call of run()

vars ==
    << permits, state_file, previous_availability, is_first_run, pc,
       first_cycle, queue, total_available, boot, cycle_start, cycle_log,
       last_step, last_seen, last_end, emitted_run, emitted_prior,
       registry, heap, config_file, last_update, last_call, polled,
       discovery, sched, inbox, sqlite >>

\* The monitor's own state: everything but the registry.
monitor_vars ==
    << state_file, previous_availability, is_first_run, pc, first_cycle,
       queue, total_available, boot, cycle_start, cycle_log, last_step,
       last_seen, last_end, emitted_run, emitted_prior >>

\* The permit manager's state, a running discovery and the loop of run().
registry_vars ==
    << registry, heap, config_file, last_update, last_call, polled, discovery,
       sched, inbox, sqlite >>

NoKey == << "", "" >>

NoResponse == [kind |-> "none", avail |-> EmptyDict]

\* No visit yet: the answer, the channel's outcome and the dates listed.
NoVisit == [resp |-> NoResponse, telegram |-> "none", listed |-> {}]

NoStep ==
    [key |-> NoKey, first |-> FALSE, resp |-> NoResponse, seen |-> NoVisit,
     previous |-> {}, at_start |-> {}, current |-> {}, lines |-> << >>,
     telegram |-> "none", completed |-> FALSE,
     resent_run |-> {}, resent_prior |-> {}]

NoEnd == [kind |-> "none", first |-> FALSE, boot |-> "past", summaries |-> 0,
          write |-> "none", error |-> "none"]

\* The (division, date) pairs of a key whose dates a successful fetch did
\* not report with remaining > 0.
SeenAbsent(key, resp, current_available) ==
    IF resp.kind = "ok"
    THEN { << key, s >> : s \in DateStrings \ current_available }
    ELSE {}

\* RiverPermitMonitor.__init__ on the file found on disk.
Boot(file) ==
    /\ previous_availability' = LoadState(file)
    /\ is_first_run' = IsFirstRun(file)
    /\ pc' = "idle"
    /\ first_cycle' = FALSE
    /\ queue' = << >>
    /\ total_available' = 0
    /\ boot' = file.kind
    /\ cycle_start' = EmptyDict
    /\ cycle_log' = EmptyDict
    /\ last_step' = NoStep
    /\ last_seen' = [k \in AllKeys |-> NoVisit]
    /\ last_end' = NoEnd


\* ------------------------------------------- commands and the registry

\* The permit manager as the methods take it.
Manager == [permits |-> registry, heap |-> heap, file |-> config_file]

NoUpdate == [kind |-> "none", chat |-> 0, text |-> << >>]

\* No update processed yet in this process.
NoHandled ==
    [update |-> NoUpdate, handler |-> "none", replies |-> << >>,
     requests |-> 0, probed |-> << >>, write |-> "none",
     provider |-> CHOOSE p \in Providers : p.valid = {} /\ p.status = "404",
     before |-> << >>, file_before |-> MissingFile]

\* No method of the manager called yet in this process.
NoCall ==
    [op |-> "none", permit_id |-> "", division_id |-> IntKey(0),
     mutation |-> "none", result |-> FALSE, write |-> "none",
     before |-> << >>, file_before |-> MissingFile]

\* CHECK_INTERVAL, line 51, and the time.sleep(2) of line 903, in seconds.
CHECK_INTERVAL == 60

LoopSleep == 2

\* The environment variables main() asks for, lines 27, 41, 42 and 907.
Credentials == { "RECREATION_API_KEY", "TELEGRAM_BOT_TOKEN", "TELEGRAM_CHANNEL_ID" }

\* run() at the top of its loop, line 887, as line 885 has just read the
\* clock into last_permit_check; the clock counts from there.
\* History: polled tells that the pass under way has polled the commands,
\* skipped that some pass ended without; attempts counts the cycle attempts
\* up to two, last_attempt is the start of the last one, gap its distance
\* from the one before, raised and prev_raised how the two ended; env are
\* the credentials the process found in its environment.
LoopStart ==
    [at |-> "top", now |-> 0, last_permit_check |-> 0, polled |-> FALSE,
     skipped |-> FALSE, attempts |-> 0, last_attempt |-> 0,
     gap |-> CHECK_INTERVAL, raised |-> FALSE, prev_raised |-> FALSE,
     env |-> Credentials]

\* No call of discover_divisions is running.
NoDiscovery ==
    [phase |-> "idle",
     provider |-> CHOOSE p \in Providers : p.valid = {} /\ p.status = "404",
     permit_name |-> "", range |-> 1, index |-> 1, divisions |-> << >>,
     errors |-> << >>, probed |-> << >>, lookups |-> 0]

\* No update waits at Telegram and check_telegram_commands is not running.
\* pending are the updates Telegram holds unconfirmed, batch what is left
\* of data['result'] in the running call.  History of the last call:
\* returned are the update_ids its getUpdates answered with, attempted those
\* its loop reached, caught what its except clause caught; failed are the
\* update_ids whose _process_telegram_update raised in any call, handled
\* how often (up to twice) it returned for each update_id, unconfirmed that
\* some offset request did not reach Telegram or was refused by it.
NoInbox ==
    [at |-> "idle", pending |-> << >>, next_id |-> 1, batch |-> << >>,
     returned |-> {}, attempted |-> {}, caught |-> "none", failed |-> {},
     handled |-> [id \in 1..MaxUpdateId |-> 0], unconfirmed |-> FALSE]

\* permit-monitor.py is not running and its database holds no row: the
\* tables of init_database, lines 64-103, on a new file.  history is the
\* table availability_history, one row for a (date, division_id) by the
\* UNIQUE of line 79; at, todo, current and notifications follow a call of
\* run(); before is the table as that call found it.
NoSqlite ==
    [at |-> "idle", history |-> << >>, before |-> << >>, todo |-> << >>,
     current |-> << >>, notifications |-> {}, record_failed |-> FALSE]

\* PermitConfigManager(config_file) was constructed: the file it found and
\* what the file system did with the migration write.
Constructed(file, write) ==
    [NoCall EXCEPT !.op = "__init__", !.write = write, !.file_before = file]

\* The registry documents a start-up can find: the defaults as migration
\* wrote them, and the defaults after division 371 was removed.
DefaultDocument == JsonDump(DefaultRegistry.permits, DefaultRegistry.heap)

SingleDocument ==
    RemoveDivision([permits |-> DefaultRegistry.permits,
                    heap |-> DefaultRegistry.heap, file |-> MissingFile],
                   "250014", IntKey(371), "written").file.data

ConfigDocuments == { DefaultDocument, SingleDocument }

ConfigFiles ==
    { MissingFile, CorruptFile } \cup { JsonFile(doc) : doc \in ConfigDocuments }

\* The manager after PermitConfigManager.__init__ found file and the
\* migration write, when one is made, ended as write.
StartManagerAt(file, write, loop) ==
    LET m == LoadPermits(file, write)
    IN  /\ registry = m.permits
        /\ heap = m.heap
        /\ config_file = m.file
        /\ permits = PermitsView(m.permits, m.heap)
        /\ last_update = NoHandled
        /\ last_call = Constructed(file, write)
        /\ polled = 0
        /\ discovery = NoDiscovery
        /\ sched = loop
        /\ inbox = NoInbox
        /\ sqlite = NoSqlite

StartManager(file, write) == StartManagerAt(file, write, LoopStart)

\* RiverPermitMonitor.__init__, lines 285-289, on the state file found.
InitMonitor ==
    /\ previous_availability = LoadState(state_file)
    /\ is_first_run = IsFirstRun(state_file)
    /\ pc = "idle"
    /\ first_cycle = FALSE
    /\ queue = << >>
    /\ total_available = 0
    /\ boot = state_file.kind
    /\ cycle_start = EmptyDict
    /\ cycle_log = EmptyDict
    /\ last_step = NoStep
    /\ last_seen = [k \in AllKeys |-> NoVisit]
    /\ last_end = NoEnd
    /\ emitted_run = {}
    /\ emitted_prior = {}

\* The state after RiverPermitMonitor.__init__, for the registries regs
\* and every file the start-up can find.
InitWith(regs) ==
    /\ permits \in regs
    /\ state_file \in { MissingFile, CorruptFile }
                        \cup { JsonFile(d) :
                                 d \in JsonDocumentsOf(UNION { { CycleKeys(r)[i] :
                                        i \in DOMAIN CycleKeys(r) } : r \in regs }) }
    /\ InitMonitor
    /\ \E file \in { MissingFile, JsonFile(SingleDocument) } :
           StartManager(file, "written")

Init == InitWith(Registries)

\* The start-up with one monitored division.
InitSingle == InitWith({ SingleDivision })

\* run(), lines 893-895, and check_and_notify, lines 770-775 and 810: a
\* cycle is due; it takes the first-run branch or the normal one and
\* iterates over the registry as it is now.
EnterCycle ==
    /\ pc = "idle"
    /\ pc' = "cycle"
    /\ first_cycle' = is_first_run
    /\ queue' = CycleKeys(permits)
    /\ total_available' = 0
    /\ cycle_start' = previous_availability
    /\ cycle_log' = EmptyDict
    /\ last_step' = NoStep
    /\ last_end' = NoEnd
    /\ UNCHANGED << permits, state_file, previous_availability, is_first_run,
                    boot, last_seen, emitted_run, emitted_prior >>

StartCycle ==
    /\ EnterCycle
    /\ UNCHANGED registry_vars

\* An exception leaves check_and_notify and is caught in run(), line 899:
\* the cycle ends where it stands, nothing is saved, is_first_run keeps
\* its value.
CycleAborted(error) ==
    /\ pc' = "idle"
    /\ first_cycle' = FALSE
    /\ queue' = << >>
    /\ total_available' = 0
    /\ boot' = "past"
    /\ cycle_start' = EmptyDict
    /\ last_end' = [kind |-> "aborted", first |-> first_cycle, boot |-> boot,
                    summaries |-> 0, write |-> "none", error |-> error]
    /\ UNCHANGED << permits, state_file, is_first_run >>

\* One pass of the loop over the divisions, lines 784-797 (first run) and
\* 813-852 (normal run): fetch, and on a normal run diff, notify, store.
\* today is the clock reading, resp the provider's answer, telegram what
\* the channel does with a message; track names the history the behaviour
\* records ("seen": last_seen, "emitted": emitted_run and emitted_prior).
DivisionStep(today, resp, telegram, track) ==
    /\ pc = "cycle"
    /\ queue # << >>
    /\ UNCHANGED registry_vars
    /\ LET key == Head(queue)
           current_dates == AvailableDates(resp)
           current_available == DOMAIN current_dates
           previous_available == Get(previous_availability, key)
           new_dates == IF first_cycle THEN {}
                        ELSE NewDates(current_available, previous_available)
           sends == new_dates # {}
           lines == IF sends THEN MessageLines(new_dates, current_dates)
                    ELSE << >>
           send_raised == sends /\ SendTelegramMessage(telegram) = "raised"
           pairs == { << key, s >> : s \in new_dates }
           absent == SeenAbsent(key, resp, current_available)
           sent_before == IF key \in DOMAIN cycle_log
                          THEN cycle_log[key].messages ELSE 0
       IN  IF WindowRaises(today)
           THEN /\ resp = NoResponse
                /\ telegram = "none"
                /\ CycleAborted("ValueError in today.replace")
                /\ UNCHANGED << previous_availability, cycle_log, last_step,
                                last_seen, emitted_run, emitted_prior >>
           ELSE /\ resp \in Responses
                /\ telegram \in (IF sends THEN TelegramOutcomes ELSE {"none"})
                /\ last_step' =
                       [key |-> key, first |-> first_cycle, resp |-> resp,
                        seen |-> last_seen[key],
                        previous |-> previous_available,
                        at_start |-> Get(cycle_start, key),
                        current |-> current_available, lines |-> lines,
                        telegram |-> telegram,
                        completed |-> ~send_raised,
                        resent_run |-> IF telegram = "200"
                                       THEN pairs \cap emitted_run ELSE {},
                        resent_prior |-> IF telegram = "200"
                                         THEN pairs \cap emitted_prior ELSE {}]
                /\ last_seen' =
                       IF track = "seen"
                       THEN [last_seen EXCEPT
                               ![key] = [resp |-> resp, telegram |-> telegram,
                                         listed |-> new_dates]]
                       ELSE last_seen
                /\ emitted_run' =
                       IF track = "emitted"
                       THEN (emitted_run \ absent)
                            \cup (IF sends /\ telegram = "200" THEN pairs ELSE {})
                       ELSE emitted_run
                /\ emitted_prior' = emitted_prior \ absent
                /\ cycle_log' =
                       [k \in DOMAIN cycle_log \cup {key} |->
                           IF k = key
                           THEN [fetched |-> current_available,
                                 ok |-> resp.kind = "ok",
                                 messages |-> sent_before
                                              + (IF sends THEN 1 ELSE 0)]
                           ELSE cycle_log[k]]
                /\ IF send_raised
                   THEN /\ CycleAborted("exception in requests.post")
                        /\ UNCHANGED previous_availability
                   ELSE /\ previous_availability' =
                               Put(previous_availability, key, current_available)
                        /\ queue' = Tail(queue)
                        /\ total_available' =
                               IF first_cycle
                               THEN total_available + Cardinality(current_available)
                               ELSE total_available
                        /\ UNCHANGED << permits, state_file, is_first_run, pc,
                                        first_cycle, boot, cycle_start, last_end >>

\* The end of check_and_notify: on the first run the summary message, the
\* save and the flag (lines 801-807); on a normal run the save (line 855).
\* doc is the document json.dump writes, write what the file system does.
FinishCycle(telegram, write, doc) ==
    /\ pc = "cycle"
    /\ queue = << >>
    /\ UNCHANGED registry_vars
    /\ telegram \in (IF first_cycle THEN TelegramOutcomes ELSE {"none"})
    /\ IF first_cycle /\ SendTelegramMessage(telegram) = "raised"
       THEN /\ CycleAborted("exception in requests.post")
            /\ UNCHANGED << previous_availability, cycle_log, last_step,
                            last_seen, emitted_run, emitted_prior >>
       ELSE /\ state_file' = SaveState(state_file, doc, write)
            /\ is_first_run' = IF first_cycle THEN FALSE ELSE is_first_run
            /\ pc' = "idle"
            /\ first_cycle' = FALSE
            /\ total_available' = 0
            /\ last_end' = [kind |-> "completed", first |-> first_cycle,
                            boot |-> boot,
                            summaries |-> IF first_cycle THEN 1 ELSE 0,
                            write |-> write, error |-> "none"]
            /\ boot' = "past"
            /\ cycle_start' = EmptyDict
            /\ last_step' = NoStep
            /\ UNCHANGED << permits, previous_availability, queue, cycle_log,
                            last_seen, emitted_run, emitted_prior >>

\* The process stops, at any point, and is started again: __init__ runs on
\* the file as it is on disk.
Restart ==
    /\ Boot(state_file)
    /\ emitted_prior' = emitted_prior \cup emitted_run
    /\ emitted_run' = {}
    /\ UNCHANGED << permits, state_file >>
    /\ UNCHANGED registry_vars

Next ==
    \/ StartCycle
    \/ \E today \in Todays, resp \in Responses \cup {NoResponse},
          telegram \in TelegramOutcomes \cup {"none"} :
           DivisionStep(today, resp, telegram, "none")
    \/ \E telegram \in TelegramOutcomes \cup {"none"}, write \in WriteOutcomes,
          doc \in Serialisations(previous_availability) :
           FinishCycle(telegram, write, doc)
    \/ Restart

Spec == Init /\ [][Next]_vars

\* The same program, recording the provider's last answer per division.
NextSeen ==
    \/ StartCycle
    \/ \E today \in Todays, resp \in Responses \cup {NoResponse},
          telegram \in TelegramOutcomes \cup {"none"} :
           DivisionStep(today, resp, telegram, "seen")
    \/ \E telegram \in TelegramOutcomes \cup {"none"}, write \in WriteOutcomes,
          doc \in Serialisations(previous_availability) :
           FinishCycle(telegram, write, doc)
    \/ Restart

SpecSeen == InitSingle /\ [][NextSeen]_vars

\* The same program, recording the notifications delivered.
NextEmitted ==
    \/ StartCycle
    \/ \E today \in Todays, resp \in Responses \cup {NoResponse},
          telegram \in TelegramOutcomes \cup {"none"} :
           DivisionStep(today, resp, telegram, "emitted")
    \/ \E telegram \in TelegramOutcomes \cup {"none"}, write \in WriteOutcomes,
          doc \in Serialisations(previous_availability) :
           FinishCycle(telegram, write, doc)
    \/ Restart

SpecEmitted == InitSingle /\ [][NextEmitted]_vars

\* The texts of the inbound messages, built from their words.
RECURSIVE Join(_)
Join(words) ==
    IF Len(words) = 1 THEN words[1]
    ELSE words[1] \o << Space >> \o Join(Tail(words))

Id250014 == << "2", "5", "0", "0", "1", "4" >>

Id621743 == << "6", "2", "1", "7", "4", "3" >>

Id371 == << "3", "7", "1" >>

Id380 == << "3", "8", "0" >>

NotANumber == << "a", "b", "c" >>

CustomName == << "C", "h", "a", "m", "a" >>

Texts ==
    { Monitor,
      Join(<< Monitor, Id250014 >>),
      Join(<< Monitor, Id621743 >>),
      Join(<< Monitor, Id621743, CustomName >>),
      Join(<< Monitor \o << "i", "n", "g" >>, Id250014 >>),
      Unmonitor,
      Join(<< Unmonitor, Id250014 >>),
      Join(<< Unmonitor, Id621743 >>),
      Join(<< Unmonitor, Id250014, CustomName >>),
      Join(<< MonitorDivision, Id250014 >>),
      Join(<< MonitorDivision, Id250014, Id371 >>),
      Join(<< MonitorDivision, Id250014, Id380, CustomName >>),
      Join(<< MonitorDivision, Id250014, NotANumber >>),
      Join(<< MonitorDivision, Id621743, Id371 >>),
      Join(<< UnmonitorDivision, Id250014 >>),
      Join(<< UnmonitorDivision, Id250014, Id371 >>),
      Join(<< UnmonitorDivision, Id250014, Id380 >>),
      Join(<< UnmonitorDivision, Id250014, NotANumber >>),
      Join(<< UnmonitorDivision, Id621743, Id371 >>),
      List,
      Join(<< List, Id250014 >>),
      Help,
      Help \o << "!" >>,
      << "h", "i" >> }

\* The updates getUpdates can return: a message with a text from a chat,
\* a message without text, an update without message.
Updates ==
    { [kind |-> "text", chat |-> c, text |-> t] : c \in Chats, t \in Texts }
    \cup { [kind |-> k, chat |-> c, text |-> << >>] :
             k \in { "no_text", "no_message" }, c \in Chats }

\* The handler an update reaches, "none" when it reaches none.
HandlerOf(update) ==
    IF update.kind = "text" /\ FromChannel(update.chat)
    THEN Dispatch(Strip(update.text))
    ELSE "none"

\* check_telegram_commands, lines 472-473: one update of the poll is
\* processed; provider is what the provider does meanwhile, write what the
\* file system does with the registry document.
ReceiveUpdate(update, provider, write) ==
    /\ pc = "idle"
    /\ polled < MaxUpdates
    /\ polled' = polled + 1
    /\ provider \in (IF HandlerOf(update) \in { "monitor", "monitor_division" }
                     THEN CommandProviders
                     ELSE { CHOOSE p \in Providers : p.valid = {} /\ p.status = "404" })
    /\ write \in (IF HandlerOf(update) \in { "none", "list", "help" }
                  THEN { "written" } ELSE WriteOutcomes)
    /\ \E h \in { ProcessTelegramUpdate(Manager, update, provider, write) } :
           /\ registry' = h.permits
           /\ heap' = h.heap
           /\ config_file' = h.file
           /\ permits' = PermitsView(h.permits, h.heap)
           /\ last_update' =
                  [update |-> update, handler |-> HandlerOf(update),
                   replies |-> h.replies, requests |-> h.requests,
                   probed |-> h.probed, write |-> write,
                   provider |-> provider,
                   before |-> Deep(registry, heap), file_before |-> config_file]
    /\ last_call' = NoCall
    /\ UNCHANGED << discovery, sched, inbox, sqlite >>
    /\ UNCHANGED monitor_vars

\* The process stops and is started again: both constructors run on the
\* files as they are on disk.
RestartProcess(write) ==
    /\ Boot(state_file)
    /\ write \in (IF config_file.kind = "json" THEN { "written" } ELSE WriteOutcomes)
    /\ LET m == LoadPermits(config_file, write)
       IN  /\ registry' = m.permits
           /\ heap' = m.heap
           /\ config_file' = m.file
           /\ permits' = PermitsView(m.permits, m.heap)
    /\ last_update' = NoHandled
    /\ last_call' = Constructed(config_file, write)
    /\ UNCHANGED << state_file, emitted_run, emitted_prior, polled, discovery,
                    sched, inbox, sqlite >>

\* The state after main() built the monitor: no availability state yet,
\* the registry read from any of the files a start-up can find.
InitCommands ==
    /\ state_file = MissingFile
    /\ InitMonitor
    /\ \E file \in ConfigFiles, write \in WriteOutcomes :
           /\ file.kind = "json" => write = "written"
           /\ StartManager(file, write)

NextCommands ==
    \/ \E update \in Updates, provider \in CommandProviders, write \in WriteOutcomes :
           ReceiveUpdate(update, provider, write)
    \/ \E write \in WriteOutcomes : RestartProcess(write)

SpecCommands == InitCommands /\ [][NextCommands]_vars

\* ------------------------------------------ the manager's methods alone

\* The arguments the methods are called with.
PermitIds == { Str(Id250014), Str(Id621743) }

DivisionIds == { IntKey(ParseInt(Id371).n), IntKey(ParseInt(Id380).n) }

NewDivisions == << [k |-> IntKey(ParseInt(Id371).n), v |-> Str(CustomName)] >>

\* One method of PermitConfigManager is called: op names it, the other
\* arguments are its parameters, write is what the file system does.
CallManager(op, permit_id, division_id, write) ==
    /\ pc = "idle"
    /\ polled < MaxUpdates
    /\ polled' = polled + 1
    /\ LET r == CASE op = "add_permit" ->
                       AddPermit(Manager, permit_id, Str(CustomName),
                                 NewDivisions, write)
                  [] op = "remove_permit" ->
                       RemovePermit(Manager, permit_id, write)
                  [] op = "add_division" ->
                       AddDivision(Manager, permit_id, division_id,
                                   Str(CustomName), write)
                  [] op = "remove_division" ->
                       RemoveDivision(Manager, permit_id, division_id, write)
       IN  /\ registry' = r.permits
           /\ heap' = r.heap
           /\ config_file' = r.file
           /\ permits' = PermitsView(r.permits, r.heap)
           /\ last_call' =
                  [op |-> op, permit_id |-> permit_id,
                   division_id |-> division_id, mutation |-> "none",
                   result |-> r.result, write |-> write,
                   before |-> Deep(registry, heap), file_before |-> config_file]
    /\ last_update' = NoHandled
    /\ UNCHANGED << discovery, sched, inbox, sqlite >>
    /\ UNCHANGED monitor_vars

\* A caller takes get_permits() and changes the value it was given: at the
\* top level (an item deleted or set) or inside a permit's divisions.
MutateReturned(mutation, permit_id, division_id) ==
    /\ pc = "idle"
    /\ polled < MaxUpdates
    /\ polled' = polled + 1
    /\ LET returned == GetPermits(Manager)
       IN  /\ Has(returned, permit_id)
           /\ LET a == GetItem(returned, permit_id)
                  changed ==
                      CASE mutation = "del returned[p]" ->
                               [top |-> DelItem(returned, permit_id), heap |-> heap]
                        [] mutation = "returned[p]['divisions'][d] = name" ->
                               [top |-> returned,
                                heap |-> [heap EXCEPT ![a].divisions =
                                             SetItem(@, division_id, Str(CustomName))]]
                        [] mutation = "del returned[p]['divisions'][d]" ->
                               [top |-> returned,
                                heap |-> [heap EXCEPT ![a].divisions =
                                             DelItem(@, division_id)]]
              IN  /\ heap' = changed.heap
                  /\ permits' = PermitsView(registry, changed.heap)
    /\ last_call' =
           [op |-> "get_permits", permit_id |-> permit_id,
            division_id |-> division_id, mutation |-> mutation,
            result |-> TRUE, write |-> "none",
            before |-> Deep(registry, heap), file_before |-> config_file]
    /\ last_update' = NoHandled
    /\ UNCHANGED << registry, config_file, discovery, sched, inbox, sqlite >>
    /\ UNCHANGED monitor_vars

Methods == { "add_permit", "remove_permit", "add_division", "remove_division" }

Mutations ==
    { "del returned[p]", "returned[p]['divisions'][d] = name",
      "del returned[p]['divisions'][d]" }

NextRegistry ==
    \/ \E op \in Methods, permit_id \in PermitIds, division_id \in DivisionIds,
          write \in WriteOutcomes :
           CallManager(op, permit_id, division_id, write)
    \/ \E mutation \in Mutations, permit_id \in PermitIds,
          division_id \in DivisionIds :
           MutateReturned(mutation, permit_id, division_id)
    \/ \E write \in WriteOutcomes : RestartProcess(write)

SpecRegistry == InitCommands /\ [][NextRegistry]_vars

\* ------------------------------------------------- the loop of run()

\* The seconds check_telegram_commands and check_and_notify can take.
PollSeconds == { 0, 1 }

CycleSeconds == { 0, 7, 61 }

\* Everything the loop's own steps leave alone.
loop_frame ==
    << permits, registry, heap, config_file, last_update, last_call, polled,
       discovery, inbox, sqlite >>

\* Line 888: check_telegram_commands() runs, in every pass of the loop; it
\* catches what its requests raise (lines 467-478).
PollCommands(seconds) ==
    /\ sched.at = "top"
    /\ sched.now + seconds <= MaxTime
    /\ sched' = [sched EXCEPT !.at = "polled", !.polled = TRUE,
                              !.now = @ + seconds]
    /\ UNCHANGED loop_frame
    /\ UNCHANGED monitor_vars

\* Lines 891-896: the clock is read; when CHECK_INTERVAL seconds have
\* passed since last_permit_check, check_and_notify() runs and, when it
\* returns, last_permit_check becomes the reading.  An exception leaving
\* check_and_notify (the date window of check_division_availability for
\* today, with a division to visit) skips line 896 and is caught at 899.
CheckDue(today, seconds) ==
    /\ sched.at = "polled"
    /\ LET current_time == sched.now
           due == current_time - sched.last_permit_check >= CHECK_INTERVAL
           raises == WindowRaises(today) /\ CycleKeys(permits) # << >>
       IN  IF due
           THEN /\ sched.now + seconds <= MaxTime
                /\ sched' =
                       [sched EXCEPT
                           !.at = "sleep",
                           !.now = @ + (IF raises THEN 0 ELSE seconds),
                           !.last_permit_check =
                               IF raises THEN @ ELSE current_time,
                           !.attempts = IF @ < 2 THEN @ + 1 ELSE @,
                           !.last_attempt = current_time,
                           !.gap = current_time - sched.last_attempt,
                           !.raised = raises,
                           !.prev_raised = sched.raised]
           ELSE /\ today = CHOOSE t \in Todays : TRUE
                /\ seconds = 0
                /\ sched' = [sched EXCEPT !.at = "sleep"]
    /\ UNCHANGED loop_frame
    /\ UNCHANGED monitor_vars

\* Line 903: time.sleep(2), after every pass.
Sleep ==
    /\ sched.at = "sleep"
    /\ sched.now + LoopSleep <= MaxTime
    /\ sched' = [sched EXCEPT !.at = "top", !.now = @ + LoopSleep,
                              !.polled = FALSE,
                              !.skipped = @ \/ ~sched.polled]
    /\ UNCHANGED loop_frame
    /\ UNCHANGED monitor_vars

NextLoop ==
    \/ \E seconds \in PollSeconds : PollCommands(seconds)
    \/ \E today \in Todays, seconds \in CycleSeconds : CheckDue(today, seconds)
    \/ Sleep

\* run() entered on a first run of the program.
InitLoop ==
    /\ InitCommands
    /\ last_call = Constructed(MissingFile, "written")

SpecLoop == InitLoop /\ [][NextLoop]_vars

\* -------------------------------------- discover_divisions, step by step

\* The permit names discover_divisions is called with: none, and one.
PermitNames == { "", "Rio Chama" }

\* The keys of a divisions dict of the probe.
FoundIds(divisions) == { divisions[i].k.n : i \in DOMAIN divisions }

\* discover_divisions is entered, lines 169-183.
StartDiscovery(provider, permit_name) ==
    /\ pc = "idle"
    /\ discovery.phase = "idle"
    /\ discovery' = [NoDiscovery EXCEPT !.phase = "ranges",
                                        !.provider = provider,
                                        !.permit_name = permit_name]
    /\ UNCHANGED << permits, registry, heap, config_file, last_update,
                    last_call, polled, sched, inbox, sqlite >>
    /\ UNCHANGED monitor_vars

\* One pass of the inner loop, lines 186-204: the candidate is tested and
\* recorded when valid, then the break of line 203 is looked at; the break
\* and the end of a range both lead to the next range, the end of the last
\* range to line 206.  _test_division is called outside any try.
ProbeStep ==
    /\ discovery.phase = "ranges"
    /\ LET div_id == TestRanges[discovery.range][discovery.index]
           test == TestDivision(discovery.provider, div_id)
           divisions ==
               IF test.value
               THEN SetItem(discovery.divisions, IntKey(div_id),
                            DiscoveredName(discovery.provider,
                                           discovery.permit_name, div_id, FALSE))
               ELSE discovery.divisions
           leaves ==
               \/ divisions # << >> /\ div_id > Min(FoundIds(divisions)) + 50
               \/ discovery.index = Len(TestRanges[discovery.range])
           last == discovery.range = Len(TestRanges)
       IN  discovery' =
               IF test.raised
               THEN [discovery EXCEPT !.phase = "raised",
                                      !.probed = Append(@, div_id)]
               ELSE [discovery EXCEPT
                        !.divisions = divisions,
                        !.probed = Append(@, div_id),
                        !.index = IF leaves THEN 1 ELSE @ + 1,
                        !.range = IF leaves /\ ~last THEN @ + 1 ELSE @,
                        !.phase = IF leaves /\ last
                                  THEN IF divisions = << >> THEN "fallback"
                                       ELSE "returned"
                                  ELSE "ranges"]
    /\ UNCHANGED << permits, registry, heap, config_file, last_update,
                    last_call, polled, sched, inbox, sqlite >>
    /\ UNCHANGED monitor_vars

\* One pass of the fallback loop, lines 208-213: it is left at the first
\* valid ID; after the last ID without a find the permit is validated.
FallbackStep ==
    /\ discovery.phase = "fallback"
    /\ LET div_id == FallbackIds[discovery.index]
           test == TestDivision(discovery.provider, div_id)
       IN  discovery' =
               IF test.raised
               THEN [discovery EXCEPT !.phase = "raised",
                                      !.probed = Append(@, div_id)]
               ELSE IF test.value
               THEN [discovery EXCEPT
                        !.divisions =
                            << [k |-> IntKey(div_id),
                                v |-> DiscoveredName(discovery.provider,
                                                     discovery.permit_name,
                                                     div_id, TRUE)] >>,
                        !.probed = Append(@, div_id),
                        !.phase = "returned"]
               ELSE [discovery EXCEPT
                        !.probed = Append(@, div_id),
                        !.index = @ + 1,
                        !.phase = IF discovery.index = Len(FallbackIds)
                                  THEN "validate" ELSE "fallback"]
    /\ UNCHANGED << permits, registry, heap, config_file, last_update,
                    last_call, polled, sched, inbox, sqlite >>
    /\ UNCHANGED monitor_vars

\* The validation of lines 215-227, reached with no division found: the
\* permit endpoint is asked inside a try and two messages, or the one of
\* the except branch, are appended; then line 229 returns.
ValidateStep ==
    /\ discovery.phase = "validate"
    /\ discovery' =
           [discovery EXCEPT
               !.errors =
                   IF discovery.provider.status = "404"
                   THEN << "not found", "not a valid permit" >>
                   ELSE IF discovery.provider.status = "exception"
                   THEN << "error validating permit" >>
                   ELSE << "no valid divisions", "may not use the division system" >>,
               !.lookups = @ + 1,
               !.phase = "returned"]
    /\ UNCHANGED << permits, registry, heap, config_file, last_update,
                    last_call, polled, sched, inbox, sqlite >>
    /\ UNCHANGED monitor_vars

\* The manager of a first run, about to be asked for a discovery.
InitDiscovery ==
    /\ InitCommands
    /\ last_call = Constructed(MissingFile, "written")

NextDiscovery ==
    \/ \E provider \in Providers, permit_name \in PermitNames :
           StartDiscovery(provider, permit_name)
    \/ ProbeStep
    \/ FallbackStep
    \/ ValidateStep

SpecDiscovery == InitDiscovery /\ [][NextDiscovery]_vars

\* discover_divisions is sequential code: a call that has begun goes on
\* with its next statement, and every request it makes has a timeout.
SpecDiscoveryRuns ==
    /\ SpecDiscovery
    /\ WF_vars(ProbeStep)
    /\ WF_vars(FallbackStep)
    /\ WF_vars(ValidateStep)

\* ------------------------------------------------- the poll of commands

\* The updates a poll is followed with: /list and /unmonitor 250014 sent in
\* the channel, and a message that has a text and no 'chat'.
PollUpdates ==
    { [kind |-> "text", chat |-> -1001, text |-> List],
      [kind |-> "text", chat |-> -1001,
       text |-> Join(<< Unmonitor, Id250014 >>)],
      [kind |-> "no_chat", chat |-> 0, text |-> List] }

\* What the getUpdates request of line 468 can do.
GetOutcomes == { "200", "non_200", "exception" }

\* What the request of line 476, which marks an update as processed, can
\* do: answer, answer with an error status the code does not look at, raise
\* before Telegram saw it, raise after Telegram took it ("timeout"); "none"
\* where it is not made.
AckOutcomes == { "200", "non_200", "exception", "timeout" }

\* _process_telegram_update, lines 482-490: an update with a message and a
\* text is asked for message['chat']['id'], a KeyError when 'chat' is
\* absent; no handler of lines 496-507 has run by then.
ProcessRaises(update) == update.kind = "no_chat"

UpdateIds(entries) == { entries[i].update_id : i \in DOMAIN entries }

\* getUpdates with an offset: Telegram forgets the updates below it.
Confirm(pending, offset) ==
    SelectSeq(pending, LAMBDA entry : entry.update_id >= offset)

poll_frame == << polled, discovery, sched, sqlite >>

\* A message reaches the bot: Telegram queues it under the next update_id.
Arrive(update) ==
    /\ inbox.next_id <= MaxUpdateId
    /\ inbox' = [inbox EXCEPT
                    !.pending = Append(@, [update_id |-> inbox.next_id,
                                           update |-> update]),
                    !.next_id = @ + 1]
    /\ UNCHANGED << permits, registry, heap, config_file, last_update,
                    last_call >>
    /\ UNCHANGED poll_frame
    /\ UNCHANGED monitor_vars

\* check_telegram_commands, lines 467-471: getUpdates is asked without an
\* offset and answers with every unconfirmed update; the loop is entered
\* on status 200 with a non-empty result, anything else ends the call.
GetUpdates(outcome) ==
    /\ inbox.at = "idle"
    /\ LET loops == outcome = "200" /\ inbox.pending # << >>
       IN  inbox' = [inbox EXCEPT
                       !.at = IF loops THEN "loop" ELSE "idle",
                       !.batch = IF loops THEN inbox.pending ELSE << >>,
                       !.returned = IF loops THEN UpdateIds(inbox.pending)
                                    ELSE {},
                       !.attempted = {},
                       !.caught = IF outcome = "exception" THEN "getUpdates"
                                  ELSE "none"]
    /\ UNCHANGED << permits, registry, heap, config_file, last_update,
                    last_call >>
    /\ UNCHANGED poll_frame
    /\ UNCHANGED monitor_vars

\* check_telegram_commands, lines 472-478: one pass of the loop over
\* data['result'].  The update is processed and marked as processed with
\* offset update_id + 1; an exception of either leaves the loop for the
\* except clause of line 477, which ends the call.
UpdateStep(write, ack) ==
    /\ inbox.at = "loop"
    /\ LET entry == Head(inbox.batch)
           update == entry.update
           raises == ProcessRaises(update)
           offset == entry.update_id + 1
           leaves == raises \/ ack \in { "exception", "timeout" }
           rest == IF leaves THEN << >> ELSE Tail(inbox.batch)
       IN  /\ write \in (IF raises \/ HandlerOf(update) \in { "none", "list", "help" }
                         THEN { "written" } ELSE WriteOutcomes)
           /\ ack \in (IF raises THEN { "none" } ELSE AckOutcomes)
           /\ \E h \in { IF raises THEN Handled(Manager, << >>, 0, << >>)
                          ELSE ProcessTelegramUpdate(Manager, update,
                                                     NoDiscovery.provider,
                                                     write) } :
                  /\ registry' = h.permits
                  /\ heap' = h.heap
                  /\ config_file' = h.file
                  /\ permits' = PermitsView(h.permits, h.heap)
                  /\ last_update' =
                         [update |-> update, handler |-> HandlerOf(update),
                          replies |-> h.replies, requests |-> h.requests,
                          probed |-> h.probed, write |-> write,
                          provider |-> NoDiscovery.provider,
                          before |-> Deep(registry, heap),
                          file_before |-> config_file]
           /\ inbox' = [inbox EXCEPT
                           !.at = IF rest = << >> THEN "idle" ELSE "loop",
                           !.batch = rest,
                           !.attempted = @ \cup { entry.update_id },
                           !.failed = IF raises THEN @ \cup { entry.update_id }
                                      ELSE @,
                           !.caught = IF raises THEN "handling"
                                      ELSE IF leaves THEN "offset"
                                      ELSE "none",
                           !.handled =
                               IF raises \/ @[entry.update_id] = 2 THEN @
                               ELSE [@ EXCEPT ![entry.update_id] = @ + 1],
                           !.unconfirmed =
                               @ \/ ack \in { "non_200", "exception" },
                           !.pending = IF ack \in { "200", "timeout" }
                                       THEN Confirm(@, offset) ELSE @]
    /\ last_call' = NoCall
    /\ UNCHANGED poll_frame
    /\ UNCHANGED monitor_vars

\* The bot polls on a first run of the program.
InitPoll ==
    /\ InitCommands
    /\ last_call = Constructed(MissingFile, "written")

NextPoll ==
    \/ \E update \in PollUpdates : Arrive(update)
    \/ \E outcome \in GetOutcomes : GetUpdates(outcome)
    \/ \E write \in WriteOutcomes, ack \in AckOutcomes \cup { "none" } :
           UpdateStep(write, ack)

SpecPoll == InitPoll /\ [][NextPoll]_vars

\* --------------------------------------- commands and cycles together

\* run(), lines 887-903, with both of its duties: the commands of a poll
\* are processed, then a cycle runs when one is due.  The commands sent
\* remove permit 250014, remove its division 371 and add that division.
BotUpdates ==
    { [kind |-> "text", chat |-> -1001, text |-> t] :
        t \in { Join(<< Unmonitor, Id250014 >>),
                Join(<< UnmonitorDivision, Id250014, Id371 >>),
                Join(<< MonitorDivision, Id250014, Id371 >>) } }

\* The provider during a command: the one that knows permit 250014 and
\* names its divisions, and the one that knows no permit.
BotProviders ==
    { p \in CommandProviders : (p.valid = {371, 380}) \/ (p.valid = {}) }

\* The provider's answers to a fetch: both dates open, or no answer.
BotResponses ==
    { r \in Responses :
        \/ r.kind = "exception"
        \/ /\ r.kind = "ok"
           /\ DOMAIN r.avail = Dates
           /\ \A dt \in DOMAIN r.avail : r.avail[dt] = 1 }

\* The state files the bot starts on: none, or one that holds a date for
\* division 371.
BotStateFiles ==
    { MissingFile,
      JsonFile([k \in { StateKey("250014", "371") } |->
                   << Strftime(<<2025, 7, 9>>) >>]) }

InitBot ==
    /\ state_file \in BotStateFiles
    /\ InitMonitor
    /\ \E file \in { MissingFile, JsonFile(DefaultDocument) } :
           StartManager(file, "written")

NextBot ==
    \/ \E update \in BotUpdates, provider \in BotProviders,
          write \in { "written", "open_failed" } :
           ReceiveUpdate(update, provider, write)
    \/ StartCycle
    \/ \E today \in Todays, resp \in BotResponses \cup {NoResponse},
          telegram \in { "200", "none" } :
           DivisionStep(today, resp, telegram, "none")
    \/ \E telegram \in { "200", "none" }, write \in { "written", "open_failed" },
          doc \in Serialisations(previous_availability) :
           FinishCycle(telegram, write, doc)

SpecBot == InitBot /\ [][NextBot]_vars

\* ------------------------------------------------- main() and run()

\* main(), lines 905-921, and run(), lines 887-903, as one process.  sched.at
\* follows it: "main" before the test of line 907, "halted" after the return
\* of line 914, then the loop: "top", "polling" inside
\* check_telegram_commands, "polled" after it, "cycle" inside
\* check_and_notify, "sleep" at line 903.

\* A plausible slip: the except clause of line 899 missing.
LoopAfterUncaught(end) == IF end = "aborted" THEN "halted" ELSE "sleep"

\* Lines 898-903: whatever ended the cycle, an exception included, the
\* loop goes on to its sleep.
LoopAfter(end) == "sleep"

\* Line 907: the loop is entered with every credential set.
MainEnters(env) == env = Credentials

run_frame ==
    << permits, registry, heap, config_file, last_update, last_call, polled,
       discovery, inbox, sqlite >>

\* main(), lines 907-918: the credentials are tested; with all of them
\* the monitor is built and run() gets to its loop.
EnterMain ==
    /\ sched.at = "main"
    /\ sched' = [sched EXCEPT !.at = IF MainEnters(sched.env) THEN "top"
                                     ELSE "halted"]
    /\ UNCHANGED run_frame
    /\ UNCHANGED monitor_vars

\* Lines 890 and 467-471: check_telegram_commands is called and asks for
\* the updates; without an answer of status 200 it returns at once.
RunPoll(outcome) ==
    /\ sched.at = "top"
    /\ sched' = [sched EXCEPT !.at = IF outcome = "200" THEN "polling"
                                     ELSE "polled"]
    /\ UNCHANGED run_frame
    /\ UNCHANGED monitor_vars

\* Lines 472-473: an update of the poll is processed.
RunUpdate(update, provider, write) ==
    /\ sched.at = "polling"
    /\ ReceiveUpdate(update, provider, write)

\* Lines 472-478: the updates are through, or an exception ended them and
\* was caught; check_telegram_commands returns.
RunPollDone ==
    /\ sched.at = "polling"
    /\ sched' = [sched EXCEPT !.at = "polled"]
    /\ UNCHANGED run_frame
    /\ UNCHANGED monitor_vars

\* Lines 893-895: the clock is read; a cycle that is due begins, else the
\* loop sleeps.
RunDue(due) ==
    /\ sched.at = "polled"
    /\ IF due
       THEN /\ EnterCycle
            /\ sched' = [sched EXCEPT !.at = "cycle"]
            /\ UNCHANGED << registry, heap, config_file, last_update,
                            last_call, polled, discovery, inbox, sqlite >>
       ELSE /\ sched' = [sched EXCEPT !.at = "sleep"]
            /\ UNCHANGED run_frame
            /\ UNCHANGED monitor_vars

\* Lines 896-900: check_and_notify has returned or raised.
RunCycleDone ==
    /\ sched.at = "cycle"
    /\ pc = "idle"
    /\ sched' = [sched EXCEPT !.at = LoopAfter(last_end.kind),
                              !.raised = last_end.kind = "aborted"]
    /\ UNCHANGED run_frame
    /\ UNCHANGED monitor_vars

\* Line 903.
RunSleep ==
    /\ sched.at = "sleep"
    /\ sched' = [sched EXCEPT !.at = "top"]
    /\ UNCHANGED run_frame
    /\ UNCHANGED monitor_vars

\* The process is started: its environment holds any of the credentials,
\* the files are those of a first run or of a later one.
InitRun ==
    /\ state_file = MissingFile
    /\ InitMonitor
    /\ \E env \in SUBSET Credentials :
           StartManagerAt(MissingFile, "written",
                          [LoopStart EXCEPT !.at = "main", !.env = env])

\* The commands sent to the running process.
RunUpdates ==
    { [kind |-> "text", chat |-> -1001, text |-> t] :
        t \in { Join(<< UnmonitorDivision, Id250014, Id371 >>),
                Join(<< MonitorDivision, Id250014, Id371 >>) } }

\* Line 890 with any answer to the request of line 467.
RunPollAny == \E outcome \in GetOutcomes : RunPoll(outcome)

\* Line 472 with any command, any provider and any disk.
RunUpdateAny ==
    \E update \in RunUpdates, provider \in BotProviders,
       write \in { "written", "open_failed" } :
        RunUpdate(update, provider, write)

\* Line 894 with any clock.
RunDueAny == \E due \in BOOLEAN : RunDue(due)

\* check_and_notify moves on: a division is fetched and reported, or the
\* cycle ends with its summary and its save.
RunCycleStep ==
    \/ \E today \in Todays, resp \in BotResponses \cup {NoResponse},
          telegram \in { "200", "exception", "none" } :
           DivisionStep(today, resp, telegram, "none")
    \/ \E telegram \in { "200", "exception", "none" },
          write \in { "written", "open_failed" },
          doc \in Serialisations(previous_availability) :
           FinishCycle(telegram, write, doc)

NextRun ==
    \/ EnterMain
    \/ RunPollAny
    \/ RunUpdateAny
    \/ RunPollDone
    \/ RunDueAny
    \/ RunCycleStep
    \/ RunCycleDone
    \/ RunSleep

\* The process is scheduled: the statement it is at runs.  The updates of
\* one answer are finite, so the loop of line 472 is left.
SpecRun ==
    /\ InitRun
    /\ [][NextRun]_vars
    /\ WF_vars(EnterMain)
    /\ WF_vars(RunPollAny)
    /\ WF_vars(RunPollDone)
    /\ WF_vars(RunDueAny)
    /\ WF_vars(RunCycleStep)
    /\ WF_vars(RunCycleDone)
    /\ WF_vars(RunSleep)

\* ------------------------------------------- permit-monitor.py (SQLite)

\* CONFIG["DIVISIONS"], lines 28-31, in dictionary order.
DIVISIONS == << "380", "381" >>

\* CONFIG["START_DATE"] and CONFIG["END_DATE"], lines 34-35, parsed by
\* the strptime of lines 266-267.
START_DATE == << 2025, 5, 1 >>

END_DATE == << 2025, 9, 30 >>

\* The dates the provider answers with: one before the configured range
\* and one inside it.
DbDates == { << 2025, 4, 30 >>, << 2025, 7, 9 >> }

\* The keys of the provider's availability object: the date followed by a
\* time of day.
DateStr(dt) == Strftime(dt) \o << "T", 0, 0, ":", 0, 0, ":", 0, 0, "Z" >>

\* date_str[:10], lines 233 and 242: the date part (the model's date texts
\* carry no dashes, so it is 8 long).
DatePart(date_str) == SubSeq(date_str, 1, Len(Strftime(START_DATE)))

\* datetime.strptime(date_str, "%Y-%m-%d"), line 271.
DbStrptime(s) == CHOOSE dt \in DbDates : Strftime(dt) = s

\* The order of datetime objects.
DateLeq(a, b) ==
    \/ a[1] < b[1]
    \/ a[1] = b[1] /\ a[2] < b[2]
    \/ a[1] = b[1] /\ a[2] = b[2] /\ a[3] <= b[3]

\* Line 274.
InRange(date_obj) == DateLeq(START_DATE, date_obj) /\ DateLeq(date_obj, END_DATE)

\* What the request of line 211 can bring: status 200 with an availability
\* object (the date before the range free or absent, the date inside it
\* absent or with any count), another status, an exception.
DbResponses ==
    { [kind |-> "ok", avail |-> a] :
        a \in { f \in UNION { [ds -> 0..MaxRemaining] : ds \in SUBSET DbDates } :
                  \A dt \in DOMAIN f : InRange(dt) \/ f[dt] = 1 } }
    \cup { [kind |-> "status", avail |-> << >>],
           [kind |-> "exception", avail |-> << >>] }

\* The keys of an availability object in the order line 226 meets them.
RECURSIVE ItemsOf(_)
ItemsOf(dates) ==
    IF dates = {} THEN << >>
    ELSE LET dt == CHOOSE d \in dates : \A e \in dates : DateLeq(d, e)
         IN  << dt >> \o ItemsOf(dates \ { dt })

\* PermitMonitorDB.get_last_availability, lines 105-118: the row's value,
\* or None.
GetLastAvailability(history, date, division_id) ==
    IF << date, division_id >> \in DOMAIN history
    THEN [found |-> TRUE, available |-> history[<< date, division_id >>]]
    ELSE [found |-> FALSE, available |-> 0]

\* PermitMonitorDB.record_availability, lines 120-130: INSERT OR REPLACE
\* on the UNIQUE (date, division_id).
RecordAvailability(history, date, division_id, available) ==
    (<< date, division_id >> :> available) @@ history

\* Lines 232-238: an entry of all_availabilities.
Info(date_str, division_id, remaining) ==
    [key |-> << date_str, division_id >>, date |-> DatePart(date_str),
     division_id |-> division_id, available |-> remaining]

\* Lines 241-247 over the first n items of an answer.
RECURSIVE RecordAll(_, _, _, _, _)
RecordAll(history, items, avail, division_id, n) ==
    IF n = 0 THEN history
    ELSE RecordAvailability(
             RecordAll(history, items, avail, division_id, n - 1),
             DatePart(DateStr(items[n])), division_id, avail[items[n]])

\* Lines 285 and 302: an entry with availability is new, or increased.
Notifies(info, history) ==
    LET previous == GetLastAvailability(history, info.date, info.division_id)
    IN  \/ ~previous.found
        \/ previous.available = 0
        \/ info.available > previous.available

\* find_new_availabilities, lines 261-319, over current_data: the entries
\* it returns a notification for.
FindNewAvailabilities(current_data, history) ==
    { current_data[i].key : i \in
        { j \in 1..Len(current_data) :
            /\ InRange(DbStrptime(current_data[j].date))
            /\ current_data[j].available > 0
            /\ Notifies(current_data[j], history) } }

sqlite_frame ==
    << permits, registry, heap, config_file, last_update, last_call, polled,
       discovery, sched, inbox >>

\* main() and run(), lines 354-360 and 182-195: a run of the program
\* begins on the database the runs before it left.
SqliteStart ==
    /\ sqlite.at = "idle"
    /\ sqlite' = [sqlite EXCEPT !.at = "fetching", !.todo = DIVISIONS,
                                !.before = sqlite.history,
                                !.current = << >>, !.notifications = {},
                                !.record_failed = FALSE]
    /\ UNCHANGED sqlite_frame
    /\ UNCHANGED monitor_vars

\* fetch_availability, lines 198-257, for one division: resp is the
\* provider's answer; fail_at is the item at whose record_availability
\* sqlite3 raises (0: at none), which the except of line 255 catches: the
\* item is in all_availabilities, line 232, and not in the table.
FetchDivision(resp, fail_at) ==
    /\ sqlite.at = "fetching"
    /\ sqlite.todo # << >>
    /\ LET division_id == Head(sqlite.todo)
           items == IF resp.kind = "ok" THEN ItemsOf(DOMAIN resp.avail)
                    ELSE << >>
           stored == IF fail_at = 0 THEN Len(items) ELSE fail_at
           recorded == IF fail_at = 0 THEN Len(items) ELSE fail_at - 1
       IN  /\ fail_at <= Len(items)
           /\ sqlite' = [sqlite EXCEPT
                  !.todo = Tail(@),
                  !.current = @ \o [i \in 1..stored |->
                      Info(DateStr(items[i]), division_id,
                           resp.avail[items[i]])],
                  !.history = RecordAll(@, items, resp.avail, division_id,
                                        recorded),
                  !.record_failed = @ \/ fail_at # 0]
    /\ UNCHANGED sqlite_frame
    /\ UNCHANGED monitor_vars

\* run(), lines 360-410, after the fetch: the notifications are found and
\* reported; written tells whether the record_notification of lines 293
\* and 310 went through: its exception leaves run() at line 410 before
\* any notification is reported.
FindNew(written) ==
    /\ sqlite.at = "fetching"
    /\ sqlite.todo = << >>
    /\ \E new \in { FindNewAvailabilities(sqlite.current, sqlite.history) } :
           /\ written \/ new # {}
           /\ sqlite' = [sqlite EXCEPT
                  !.at = IF written THEN "done" ELSE "failed",
                  !.notifications = IF written THEN new ELSE {}]
    /\ UNCHANGED sqlite_frame
    /\ UNCHANGED monitor_vars

\* The process exits, lines 422-425; the database stays.
SqliteExit ==
    /\ sqlite.at \in { "done", "failed" }
    /\ sqlite' = [NoSqlite EXCEPT !.history = sqlite.history]
    /\ UNCHANGED sqlite_frame
    /\ UNCHANGED monitor_vars

\* The program is installed: no database yet, lines 172 and 64-103.
InitSqlite ==
    /\ state_file = MissingFile
    /\ InitMonitor
    /\ StartManager(MissingFile, "written")

NextSqlite ==
    \/ SqliteStart
    \/ \E resp \in DbResponses, fail_at \in 0..Cardinality(DbDates) :
           FetchDivision(resp, fail_at)
    \/ \E written \in BOOLEAN : FindNew(written)
    \/ SqliteExit

SpecSqlite == InitSqlite /\ [][NextSqlite]_vars

\* ============================================================= claims

\* The dates a fetch returned with remaining > 0, as their text; none when
\* the fetch failed.
Reported(resp) ==
    IF resp.kind = "ok"
    THEN { Strftime(dt) : dt \in { x \in DOMAIN resp.avail : resp.avail[x] > 0 } }
    ELSE {}

\* The dates a message lists, as their text.
Listed(lines) == { Strftime(lines[i].date) : i \in DOMAIN lines }

\* A division has been visited in the running or the last cycle.
Visited == last_step.key # NoKey

\* The order of the calendar.
CalLess(x, y) ==
    \/ x[1] < y[1]
    \/ x[1] = y[1] /\ x[2] < y[2]
    \/ x[1] = y[1] /\ x[2] = y[2] /\ x[3] < y[3]

RegistryKeys == { CycleKeys(permits)[i] : i \in DOMAIN CycleKeys(permits) }

\* C1: in a cycle that is not the first-run cycle, the dates a division's
\* notification lists are exactly C \ P, C the dates fetched with
\* remaining > 0 and P the set stored for the key when the cycle began (empty
\* when the key was not stored); no message is sent when C \ P is empty.
C1_NotificationIsDifference ==
    (Visited /\ ~last_step.first) =>
        LET C == Reported(last_step.resp)
            P == last_step.at_start
        IN  /\ Listed(last_step.lines) = C \ P
            /\ (C \ P = {}) <=> (last_step.telegram = "none")
            /\ cycle_log[last_step.key].messages = IF C \ P = {} THEN 0 ELSE 1

\* C1 witness: a normal visit whose fetch holds a stored date and a new one.
C1_Witness ==
    /\ Visited /\ ~last_step.first
    /\ last_step.at_start # {}
    /\ Reported(last_step.resp) \cap last_step.at_start # {}
    /\ Reported(last_step.resp) \ last_step.at_start # {}
    /\ last_step.lines # << >>

\* C2: with no state file at start-up, the first availability cycle stores
\* the fetched set for every division of the registry, sends no
\* new-availability message and sends one summary message.
C2_FirstCycleSeedsAll ==
    (last_end.kind # "none" /\ last_end.boot = "missing") =>
        /\ \A k \in RegistryKeys :
               /\ k \in DOMAIN cycle_log
               /\ k \in DOMAIN previous_availability
               /\ previous_availability[k] = cycle_log[k].fetched
        /\ \A k \in DOMAIN cycle_log : cycle_log[k].messages = 0
        /\ last_end.summaries = 1

\* C3: a failed fetch is no update: the set stored for the division is the
\* one stored before, and no notification is sent for it.
C3_FailedFetchIsNoUpdate ==
    (Visited /\ last_step.resp.kind # "ok") =>
        /\ Get(previous_availability, last_step.key) = last_step.previous
        /\ last_step.lines = << >>

\* C4: within one process, a (division, date) delivered once is not
\* delivered again unless the provider reported the date absent or with
\* remaining 0 in between.
C4_AtMostOncePerTransition == last_step.resent_run = {}

\* C5: a (division, date) delivered before the process stopped, at any
\* point, is not notified again after the restart unless the provider
\* reported the date absent in between; stated for a start-up that finds a
\* readable snapshot on disk.
C5_NoResendAfterRestart ==
    state_file.kind = "json" => last_step.resent_prior = {}

\* C6: a start-up on a corrupt state file gives an empty store and is
\* treated as a first run: the first cycle after it seeds silently, with no
\* new-availability message.
C6_CorruptIsFirstRun ==
    (boot = "corrupt") =>
        /\ pc = "idle" => previous_availability = EmptyDict
        /\ Visited => last_step.lines = << >>

Failed == { "non_200", "exception" }

\* C7: when the channel fails to deliver a notification the cycle goes on,
\* the division's stored set is replaced by the current fetch all the same,
\* the save at the end of the cycle writes the store, and the next visit of
\* the division does not list the same dates again.
C7_FailedSendKeepsUpdate ==
    /\ (Visited /\ last_step.telegram \in Failed) =>
           /\ last_step.completed
           /\ pc = "cycle"
           /\ last_step.key \in DOMAIN previous_availability
           /\ previous_availability[last_step.key] = Reported(last_step.resp)
    /\ (Visited /\ last_step.seen.telegram \in Failed) =>
           Listed(last_step.lines) \cap last_step.seen.listed = {}
    /\ (last_end.kind = "completed" /\ last_end.write = "written") =>
           /\ state_file.kind = "json"
           /\ LoadState(state_file) = previous_availability

\* C7 witness: the visit after a failed send, the provider still reporting
\* the dates of the lost message, and none of them listed.
C7_Witness ==
    /\ Visited
    /\ last_step.seen.telegram = "exception"
    /\ last_step.seen.listed # {}
    /\ last_step.seen.listed \subseteq Reported(last_step.resp)
    /\ last_step.lines = << >>

\* C8: after a cycle, for each division whose fetch succeeded the stored
\* set is exactly the set of dates that fetch returned with remaining > 0:
\* no date with remaining 0, no date kept from an earlier fetch.
C8_StoredIsLastFetch ==
    /\ (Visited /\ last_step.completed /\ last_step.resp.kind = "ok") =>
           /\ cycle_log[last_step.key].fetched = Reported(last_step.resp)
           /\ \A dt \in Dates :
                  Strftime(dt) \in previous_availability[last_step.key]
                  <=> (dt \in DOMAIN last_step.resp.avail
                       /\ last_step.resp.avail[dt] > 0)
    /\ \A k \in DOMAIN cycle_log :
           cycle_log[k].ok =>
               /\ k \in DOMAIN previous_availability
               /\ previous_availability[k] = cycle_log[k].fetched
    /\ (last_end.kind = "completed" /\ last_end.write = "written") =>
           LoadState(state_file) = previous_availability

\* C8 witness: every division visited, the last fetch dropping a stored
\* date, reporting one date with remaining 0 and one with remaining > 0.
C8_Witness ==
    /\ pc = "cycle" /\ queue = << >>
    /\ Visited /\ last_step.resp.kind = "ok"
    /\ Cardinality(DOMAIN cycle_log) = 2
    /\ last_step.previous \ last_step.current # {}
    /\ \E dt \in DOMAIN last_step.resp.avail : last_step.resp.avail[dt] = 0
    /\ previous_availability[last_step.key] # {}

\* C9: whether a date is notified depends on its membership in the stored
\* and the current set alone: a stored date whose remaining count changes
\* and stays > 0 is not notified; a date the previous visit saw with
\* remaining 0 and this visit sees with remaining > 0 is notified.
C9_MembershipOnly ==
    (Visited /\ ~last_step.first) =>
        \A dt \in Dates :
            LET now == IF dt \in DOMAIN last_step.resp.avail
                       THEN last_step.resp.avail[dt] ELSE 0
                before == last_step.seen.resp
                notified == \E i \in DOMAIN last_step.lines :
                                last_step.lines[i].date = dt
            IN  /\ notified <=> (now > 0 /\ Strftime(dt) \notin last_step.previous)
                /\ (Strftime(dt) \in last_step.previous /\ now > 0) => ~notified
                /\ (/\ before.kind = "ok"
                    /\ dt \in DOMAIN before.avail
                    /\ before.avail[dt] = 0
                    /\ now > 0) => notified

\* C9 witness: one date stored with remaining 1 and now 2, not notified,
\* the other seen with remaining 0 and now 1, notified.
C9_Witness ==
    /\ Visited /\ ~last_step.first
    /\ last_step.seen.resp.kind = "ok"
    /\ last_step.seen.resp.avail = [dt \in Dates |-> IF dt[3] = 9 THEN 1 ELSE 0]
    /\ last_step.resp.kind = "ok"
    /\ last_step.resp.avail = [dt \in Dates |-> IF dt[3] = 9 THEN 2 ELSE 1]
    /\ Len(last_step.lines) = 1
    /\ last_step.lines[1].date[3] = 10

\* C10: in one cycle a division gets at most one new-availability message,
\* and the message lists all of the division's new dates in ascending
\* calendar order.
C10_OneSortedMessage ==
    /\ \A k \in DOMAIN cycle_log : cycle_log[k].messages <= 1
    /\ Visited =>
           /\ \A i, j \in DOMAIN last_step.lines :
                  i < j => CalLess(last_step.lines[i].date, last_step.lines[j].date)
           /\ Listed(last_step.lines) =
                  IF last_step.first THEN {}
                  ELSE Reported(last_step.resp) \ last_step.previous

\* C10 witness: a message of two dates.
C10_Witness ==
    /\ Visited
    /\ Len(last_step.lines) = 2
    /\ cycle_log[last_step.key].messages = 1

\* ------------------------------------------------ claims on the registry

\* C11: every permit of the in-memory registry has at least one division,
\* after any sequence of commands, the ones whose write fails included.
C11_NoPermitWithoutDivisions ==
    \A i \in DOMAIN registry : heap[registry[i].v].divisions # << >>

\* The registry as it is now, as a value.
Now == Deep(registry, heap)

\* The words of the text of the update processed last.
Words == Split(Strip(last_update.update.text), -1)

\* The update processed last came from the configured channel and its
\* text is verb followed by n more words.
Command(verb, n) ==
    /\ last_update.update.kind = "text"
    /\ PyStr(last_update.update.chat) = TELEGRAM_CHANNEL_ID
    /\ Len(Words) = n + 1
    /\ Words[1] = verb

\* Permit p of the registry value reg, and whether reg has it.
Registered(reg, p) == \E i \in DOMAIN reg : reg[i].k = p

PermitOf(reg, p) == reg[CHOOSE i \in DOMAIN reg : reg[i].k = p].v

\* Division number n is registered for permit p in reg: one of p's
\* division IDs reads as n.
RegisteredDivision(reg, p, n) ==
    /\ Registered(reg, p)
    /\ \E j \in DOMAIN PermitOf(reg, p).divisions :
           KeyText(PermitOf(reg, p).divisions[j].k) = PyStr(n)

\* reg without division n of permit p, the permit dropped with its last
\* division.
WithoutDivision(reg, p, n) ==
    LET left == SelectSeq(PermitOf(reg, p).divisions,
                          LAMBDA e : KeyText(e.k) # PyStr(n))
        kept == [i \in DOMAIN reg |->
                    IF reg[i].k = p
                    THEN [k |-> p, v |-> [name |-> reg[i].v.name, divisions |-> left]]
                    ELSE reg[i]]
    IN  IF left = << >> THEN SelectSeq(kept, LAMBDA e : e.k # p) ELSE kept

ReplyKinds == { last_update.replies[i].kind : i \in DOMAIN last_update.replies }

\* C12: unmonitor_division P D for a registered permit P with registered
\* division D succeeds; afterwards P is gone if D was its only division,
\* else P is there with exactly its other divisions; every other permit is
\* as before.
C12_UnmonitorDivisionRemoves ==
    (/\ Command(UnmonitorDivision, 2)
     /\ ParseInt(Words[3]).ok
     /\ RegisteredDivision(last_update.before, Str(Words[2]), ParseInt(Words[3]).n))
    => /\ ReplyKinds \subseteq { "removed_last", "stopped_division" }
       /\ Now = WithoutDivision(last_update.before, Str(Words[2]),
                                ParseInt(Words[3]).n)

\* The update processed last is a text from the configured channel of at
\* least n words.
FromOperator(n) ==
    /\ last_update.update.kind = "text"
    /\ PyStr(last_update.update.chat) = TELEGRAM_CHANNEL_ID
    /\ Len(Words) >= n

\* The handler left the registry and its document as they were.
RegistryUntouched ==
    /\ Now = last_update.before
    /\ config_file = last_update.file_before

\* C13: monitor <permit_id> for a permit that is in the registry gives one
\* 'Already monitoring' reply, makes no provider request and leaves the
\* registry unchanged.
C13_MonitorKnownPermit ==
    (/\ FromOperator(2)
     /\ Words[1] = Monitor
     /\ Registered(last_update.before, Str(Words[2])))
    => /\ last_update.replies = << Reply("already_monitoring") >>
       /\ last_update.requests = 0
       /\ last_update.probed = << >>
       /\ RegistryUntouched

\* C13 witness: /monitor 250014 answered while 250014 is monitored.
C13_Witness ==
    /\ FromOperator(2)
    /\ Words[1] = Monitor
    /\ Registered(last_update.before, Str(Words[2]))
    /\ Len(last_update.replies) = 1

\* A token is an integer numeral: decimal digits after an optional sign.
Numeral(token) ==
    LET digits == IF token # << >> /\ Head(token) \in { "+", "-" }
                  THEN Tail(token) ELSE token
    IN  /\ digits # << >>
        /\ \A i \in DOMAIN digits : digits[i] \in DigitChars

\* C14: monitor_division P x and unmonitor_division P x with x not an
\* integer give one error or usage reply and leave the registry and its
\* document unchanged.
C14_NonIntegerDivision ==
    (/\ FromOperator(3)
     /\ Words[1] \in { MonitorDivision, UnmonitorDivision }
     /\ ~Numeral(Words[3]))
    => /\ Len(last_update.replies) = 1
       /\ ReplyKinds \subseteq { "not_a_number", "usage" }
       /\ RegistryUntouched

\* C14 witness: both commands answered with the error reply.
C14_Witness ==
    /\ FromOperator(3)
    /\ Words[1] = MonitorDivision
    /\ ~Numeral(Words[3])
    /\ ReplyKinds = { "not_a_number" }
    /\ last_update.before # << >>

Verbs == { Monitor, Unmonitor, MonitorDivision, UnmonitorDivision, List, Help }

\* C15: a recognized command from the configured channel causes exactly
\* one message to be sent.
C15_OneReplyPerCommand ==
    (FromOperator(1) /\ Words[1] \in Verbs /\ last_update.handler # "none")
    => Len(last_update.replies) = 1

\* C16: a text is dispatched only when its first word is exactly a
\* command verb, and then to that verb's handler; any other text gets no
\* reply, no provider request and no registry change.
C16_ExactVerbs ==
    /\ (FromOperator(1) /\ Words[1] \notin Verbs)
       => /\ last_update.handler = "none"
          /\ last_update.replies = << >>
          /\ last_update.requests = 0
          /\ RegistryUntouched
    /\ (FromOperator(1) /\ Words[1] \in Verbs /\ last_update.handler # "none")
       => Words[1] = (CASE last_update.handler = "monitor" -> Monitor
                        [] last_update.handler = "unmonitor" -> Unmonitor
                        [] last_update.handler = "monitor_division" -> MonitorDivision
                        [] last_update.handler = "unmonitor_division" -> UnmonitorDivision
                        [] last_update.handler = "list" -> List
                        [] last_update.handler = "help" -> Help)

\* C17: an update from a chat other than the configured channel changes
\* nothing: registry, registry document, availability store and state file
\* stay as they are, no message is sent, no provider request made.
C17_ForeignChatIgnored ==
    [][(/\ polled' = polled + 1
        /\ last_update'.update.kind = "text"
        /\ PyStr(last_update'.update.chat) # TELEGRAM_CHANNEL_ID)
       => /\ UNCHANGED << registry, heap, config_file, permits,
                          previous_availability, state_file >>
          /\ last_update'.replies = << >>
          /\ last_update'.requests = 0]_vars

\* C17 witness: /unmonitor 250014 from another chat, 250014 still monitored.
C17_Witness ==
    /\ last_update.update.kind = "text"
    /\ PyStr(last_update.update.chat) # TELEGRAM_CHANNEL_ID
    /\ Words = << Unmonitor, Id250014 >>
    /\ Registered(Now, Str(Id250014))

\* The method called last left the registry and its document as they were.
CallUntouched ==
    /\ Now = last_call.before
    /\ config_file = last_call.file_before

\* reg without permit p.
WithoutPermit(reg, p) == SelectSeq(reg, LAMBDA e : e.k # p)

\* The registry a document holds, division IDs as their text.
Documented(file) ==
    IF file.kind = "json"
    THEN [i \in DOMAIN file.data |->
             [k |-> file.data[i].k,
              v |-> [name |-> file.data[i].v.name,
                     divisions |-> file.data[i].v.divisions]]]
    ELSE << >>

\* C18: add_permit returns False exactly when the registry could not be
\* written; when it returns True the registry in memory and the document
\* on disk both map the permit to the name and divisions given, and every
\* other permit is as before.
C18_AddPermitReportsWrite ==
    (last_call.op = "add_permit") =>
        /\ ~last_call.result <=> last_call.write # "written"
        /\ last_call.result =>
               /\ Registered(Now, last_call.permit_id)
               /\ PermitOf(Now, last_call.permit_id) =
                      [name |-> Str(CustomName), divisions |-> NewDivisions]
               /\ Registered(Documented(config_file), last_call.permit_id)
               /\ PermitOf(Documented(config_file), last_call.permit_id).name =
                      Str(CustomName)
               /\ WithoutPermit(Now, last_call.permit_id) =
                      WithoutPermit(last_call.before, last_call.permit_id)

\* C19: what a caller does to the value get_permits() returned, at the top
\* level or inside a permit's divisions, does not change the registry.
C19_GetPermitsIsDefensiveCopy ==
    (last_call.op = "get_permits") => Now = last_call.before

\* C20: remove_permit of an absent permit, add_division to an absent
\* permit and remove_division of an absent permit or of a division the
\* permit does not have return False and leave the registry and its
\* document unchanged.
C20_AbsentTargetsRefused ==
    LET absent == ~Registered(last_call.before, last_call.permit_id)
        no_division ==
            \/ absent
            \/ ~Has(PermitOf(last_call.before, last_call.permit_id).divisions,
                    last_call.division_id)
    IN  (\/ last_call.op \in { "remove_permit", "add_division" } /\ absent
         \/ last_call.op = "remove_division" /\ no_division)
        => ~last_call.result /\ CallUntouched

\* C20 witness: remove_division refused for a permit that is there and a
\* division it does not have.
C20_Witness ==
    /\ last_call.op = "remove_division"
    /\ Registered(last_call.before, last_call.permit_id)
    /\ ~Has(PermitOf(last_call.before, last_call.permit_id).divisions,
            last_call.division_id)
    /\ ~last_call.result

\* ------------------------------------------- claims on initialization

\* The manager was constructed on a file that is absent or unreadable.
MigratedStart ==
    /\ last_call.op = "__init__"
    /\ last_call.file_before.kind # "json"

\* C21: when the manager is constructed and the registry document is
\* absent or unreadable, the registry in memory is the built-in default set
\* and the document is written at once with that same set (the write is
\* the file system's to grant: it is the document whenever the write went
\* through).
C21_MigrationOnFirstRun ==
    MigratedStart =>
        /\ Now = Deep(DefaultRegistry.permits, DefaultRegistry.heap)
        /\ last_call.write = "written" =>
               /\ config_file = JsonFile(DefaultDocument)
               /\ Deep(JsonLoad(config_file.data).permits,
                       JsonLoad(config_file.data).heap)
                  = Deep(JsonLoad(JsonDump(registry, heap)).permits,
                         JsonLoad(JsonDump(registry, heap)).heap)

\* C21 witness: a start on an unreadable document that left the defaults
\* in memory and on disk.
C21_Witness ==
    /\ MigratedStart
    /\ last_call.file_before = CorruptFile
    /\ last_call.write = "written"
    /\ config_file.kind = "json"
    /\ Registered(Documented(config_file), "250014")

\* C22: after the manager is constructed on a file with no valid content
\* the document on disk holds the migrated defaults, and these include
\* permit 250014 and permit 621743.
C22_DefaultsHoldBothPermits ==
    (MigratedStart /\ last_call.write = "written") =>
        /\ config_file.kind = "json"
        /\ Registered(Documented(config_file), "250014")
        /\ Registered(Documented(config_file), "621743")

\* ---------------------------------------------- claims on the commands

\* The permit name _handle_start_monitoring works with for the update
\* processed last: the one given, or the one looked up.
MonitorName ==
    LET parts == Split(Strip(last_update.update.text), 2)
    IN  IF Len(parts) > 2 THEN Str(parts[3])
        ELSE PermitName(last_update.provider, Str(parts[2]))

\* What the division probe returned to the update processed last.
Probe == DiscoverDivisions(last_update.provider, MonitorName)

\* The update processed last is monitor <permit_id> [name] for a permit
\* that was not in the registry.
MonitorNew ==
    /\ FromOperator(2)
    /\ Words[1] = Monitor
    /\ ~Registered(last_update.before, Str(Words[2]))

\* C23: after monitor <permit_id> [name] for a permit not in the registry
\* the permit is registered exactly when the probe returned a non-empty
\* map and the write went through, its divisions then being the ones
\* discovered and nothing else changed; when the probe returned an empty
\* map the registry is unchanged and the reply carries the probe's errors.
C23_MonitorNewPermit ==
    MonitorNew =>
        /\ Registered(Now, Str(Words[2]))
           <=> (Probe.divisions # << >> /\ last_update.write = "written")
        /\ Registered(Now, Str(Words[2])) =>
               /\ PermitOf(Now, Str(Words[2])) =
                      [name |-> MonitorName, divisions |-> Probe.divisions]
               /\ WithoutPermit(Now, Str(Words[2])) = last_update.before
        /\ Probe.divisions = << >> =>
               /\ RegistryUntouched
               /\ Probe.errors # << >>
               /\ last_update.replies[Len(last_update.replies)] =
                      [kind |-> "discover_failed", errors |-> Probe.errors]

\* C23 witness: a new permit registered with the two divisions the probe
\* found.
C23_Witness ==
    /\ MonitorNew
    /\ Registered(Now, Str(Words[2]))
    /\ Len(PermitOf(Now, Str(Words[2])).divisions) = 2
    /\ last_update.probed # << >>

\* The divisions of a permit value without the ones that read as n.
OtherDivisions(permit, n) ==
    SelectSeq(permit.divisions, LAMBDA e : KeyText(e.k) # PyStr(n))

\* C24: after monitor_division P D [name] with integer D, written through:
\* an absent P is created with the one division D; a present P without D
\* gets D, its name and other divisions as before; a P that has D is left
\* as it was and the reply says it is monitored already.  No other permit
\* changes.
C24_MonitorDivisionEffects ==
    (/\ FromOperator(3)
     /\ Words[1] = MonitorDivision
     /\ Numeral(Words[3])
     /\ last_update.write = "written")
    => LET p == Str(Words[2])
           n == ParseInt(Words[3]).n
           before == last_update.before
       IN  /\ ~Registered(before, p) =>
                  /\ Registered(Now, p)
                  /\ Len(PermitOf(Now, p).divisions) = 1
                  /\ RegisteredDivision(Now, p, n)
                  /\ WithoutPermit(Now, p) = before
           /\ (Registered(before, p) /\ ~RegisteredDivision(before, p, n)) =>
                  /\ RegisteredDivision(Now, p, n)
                  /\ PermitOf(Now, p).name = PermitOf(before, p).name
                  /\ OtherDivisions(PermitOf(Now, p), n) =
                         PermitOf(before, p).divisions
                  /\ WithoutPermit(Now, p) = WithoutPermit(before, p)
           /\ RegisteredDivision(before, p, n) =>
                  /\ RegistryUntouched
                  /\ last_update.replies[Len(last_update.replies)] =
                         Reply("already_monitoring")

\* C25: after unmonitor P, written through, a registered P is gone with
\* all its divisions, in memory and in the document, and every other
\* permit is as before; for a P that is not registered the reply says so
\* and the registry is unchanged.
C25_UnmonitorEffects ==
    Command(Unmonitor, 1) =>
        LET p == Str(Words[2])
            before == last_update.before
        IN  /\ (Registered(before, p) /\ last_update.write = "written") =>
                   /\ ~Registered(Now, p)
                   /\ Now = WithoutPermit(before, p)
                   /\ config_file = JsonFile(JsonDump(registry, heap))
                   /\ ~Registered(Documented(config_file), p)
                   /\ last_update.replies = << Reply("stopped") >>
            /\ ~Registered(before, p) =>
                   /\ last_update.replies = << Reply("not_monitoring") >>
                   /\ RegistryUntouched

\* C25 witness: one of two permits removed, the other one left.
C25_Witness ==
    /\ Command(Unmonitor, 1)
    /\ Registered(last_update.before, Str(Words[2]))
    /\ Len(last_update.before) = 2
    /\ Len(Now) = 1
    /\ ~Registered(Now, Str(Words[2]))

\* ------------------------------------------ claims on the discovery

\* The step-by-step run of discover_divisions returns what the function
\* DiscoverDivisions computes.
DiscoveryAgrees ==
    (discovery.phase = "returned") =>
        LET result == DiscoverDivisions(discovery.provider, discovery.permit_name)
        IN  /\ discovery.divisions = result.divisions
            /\ discovery.errors = result.errors
            /\ discovery.probed = result.probed

\* The IDs found by the probes made before the j-th one.
FoundBefore(j) ==
    { discovery.probed[i] : i \in 1..(j - 1) } \cap FoundIds(discovery.divisions)

\* C26: once a valid division is found no candidate above
\* min(found_ids) + 50 is probed for the rest of the discovery, and every
\* division of the result has an ID of at most min(found_ids) + 50.
C26_StopsBeyondCluster ==
    /\ \A j \in DOMAIN discovery.probed :
           FoundBefore(j) # {} =>
               discovery.probed[j] <= Min(FoundBefore(j)) + 50
    /\ (discovery.phase = "returned" /\ discovery.divisions # << >>) =>
           \A d \in FoundIds(discovery.divisions) :
               d <= Min(FoundIds(discovery.divisions)) + 50

\* The candidates of the structured ranges, and the fallback IDs that are
\* in none of them.
RangeIds ==
    UNION { { TestRanges[r][i] : i \in DOMAIN TestRanges[r] } : r \in DOMAIN TestRanges }

FallbackOnly == { FallbackIds[i] : i \in DOMAIN FallbackIds } \ RangeIds

\* C27: discover_divisions never raises, whatever the provider does; the
\* map it returns is empty exactly when the error list it returns is not;
\* and the fallback IDs are probed only when the structured ranges found
\* no valid division.
C27_DiscoveryIsSoftFailure ==
    /\ discovery.phase # "raised"
    /\ (discovery.phase = "returned") =>
           (discovery.divisions = << >> <=> discovery.errors # << >>)
    /\ (discovery.phase = "fallback") => discovery.divisions = << >>
    /\ (\E i \in DOMAIN discovery.probed : discovery.probed[i] \in FallbackOnly) =>
           FoundIds(discovery.divisions) \cap RangeIds = {}

\* C27 witness: a discovery against a provider whose every request raises
\* has returned, ranges and fallback IDs probed, with errors and no
\* division.
C27_Witness ==
    /\ discovery.phase = "returned"
    /\ discovery.provider.probe = "exception"
    /\ discovery.provider.status = "exception"
    /\ Len(discovery.probed) > Len(FallbackIds)
    /\ \E i \in DOMAIN discovery.probed : discovery.probed[i] \in FallbackOnly
    /\ discovery.divisions = << >>
    /\ discovery.errors # << >>

\* ------------------------------------------------ claims on the loop

\* C28: the first availability cycle starts no earlier than CHECK_INTERVAL
\* seconds after the loop starts, the starts of two consecutive cycle
\* attempts are at least CHECK_INTERVAL seconds apart, and commands are
\* polled in every pass of the loop, a cycle being due or not.
C28_TwoCadences ==
    /\ sched.attempts >= 1 => sched.last_attempt >= CHECK_INTERVAL
    /\ sched.attempts >= 2 => sched.gap >= CHECK_INTERVAL
    /\ ~sched.skipped
    /\ sched.at # "top" => sched.polled

\* ------------------------------------------------ claims on isolation

\* The keys of the divisions a cycle over the registry visits.
CycleKeySet == { CycleKeys(permits)[i] : i \in DOMAIN CycleKeys(permits) }

\* C29: a failure while fetching one division, the building of the date
\* window from the current date included, ends no cycle: the division
\* visit is completed with an empty fetch, and a cycle that ends has
\* visited every division and written the state, whatever the date.
C29_DivisionFailureIsolated ==
    /\ last_end.kind = "aborted" => last_end.error = "exception in requests.post"
    /\ (last_step # NoStep /\ last_step.resp.kind # "ok") =>
           /\ last_step.current = {}
           /\ last_step.completed
    /\ last_end.kind = "completed" =>
           /\ DOMAIN cycle_log = CycleKeySet
           /\ last_end.write # "none"

\* C30: when handling one update raises, the updates the same poll returned
\* after it are processed in that poll all the same, and the failing update
\* is not handed out again ahead of later updates in the polls that follow.
C30_CommandFailureIsolated ==
    (inbox.at = "idle" /\ inbox.failed # {}) =>
        /\ inbox.caught = "handling" => inbox.attempted = inbox.returned
        /\ UpdateIds(inbox.pending) \cap inbox.failed = {}

\* ------------------------------------------------ claims on discovery cost

\* C39: a call of discover_divisions returns, whatever the provider does,
\* after testing at most 224 candidates (19 + 100 + 100 of the ranges and
\* the 5 fallback IDs) and asking the permit endpoint at most once.
C39_DiscoveryIsBounded ==
    /\ [](Len(discovery.probed) <= 19 + 100 + 100 + 5)
    /\ [](discovery.lookups <= 1)
    /\ (discovery.phase \in { "ranges", "fallback", "validate" })
           ~> (discovery.phase = "returned")

\* C39 witness: a call has returned after 224 candidates and one lookup.
C39_Witness ==
    /\ discovery.phase = "returned"
    /\ Len(discovery.probed) = 224
    /\ discovery.lookups = 1

\* The update_ids Telegram has given to updates whose processing returns.
Handleable ==
    { id \in 1..(inbox.next_id - 1) : id \notin inbox.failed }

\* C38: every update of the operator channel is handled exactly once and
\* in the order received, whatever the poll request and the offset requests
\* do: none is handled a second time, and none is handled while an earlier
\* one has not been.
C38_HandledOnceInOrder ==
    /\ \A id \in 1..MaxUpdateId : inbox.handled[id] <= 1
    /\ \A id \in Handleable :
           inbox.handled[id] >= 1 =>
               \A earlier \in Handleable :
                   earlier < id => inbox.handled[earlier] >= 1

\* ------------------------------------------------ claims on the store

\* C32: saving the availability store and loading it again gives the same
\* mapping: the same keys, and for every key the set of dates that was
\* stored, whatever order json.dump wrote each set in; so it is for the
\* file a completed cycle has written.
C32_StoreRoundTrip ==
    /\ \A doc \in Serialisations(previous_availability) :
           LET loaded == LoadState(SaveState(state_file, doc, "written"))
           IN  /\ DOMAIN loaded = DOMAIN previous_availability
               /\ \A k \in DOMAIN loaded : loaded[k] = previous_availability[k]
    /\ (last_end.kind = "completed" /\ last_end.write = "written") =>
           /\ DOMAIN LoadState(state_file) = DOMAIN previous_availability
           /\ \A k \in DOMAIN previous_availability :
                  LoadState(state_file)[k] = previous_availability[k]

\* C32 witness: a cycle has written a store of two keys, one with two
\* dates and one with none.
C32_Witness ==
    /\ last_end.kind = "completed" /\ last_end.write = "written"
    /\ Cardinality(DOMAIN previous_availability) = 2
    /\ \E k \in DOMAIN previous_availability :
           Cardinality(previous_availability[k]) = 2
    /\ \E k \in DOMAIN previous_availability : previous_availability[k] = {}

\* ------------------------------------------------ claims on durability

\* C35: a mutation of the registry whose write failed (add_permit,
\* remove_permit, add_division or remove_division) is not visible in the
\* registry in memory, at the top level or inside a permit: the registry
\* is what it was before the call, as the last document written has it.
C35_FailedWriteInvisible ==
    (last_call.op \in Methods /\ last_call.write # "written") =>
        Now = last_call.before

\* The registry value reg has been read from its JSON document: every
\* division ID is the text json.load gives.
Reloaded(reg) ==
    \A i \in DOMAIN reg :
        \A j \in DOMAIN reg[i].v.divisions : reg[i].v.divisions[j].k.t = "str"

\* C36: a registry reloaded from its JSON document recognizes the division
\* IDs registered before the restart: unmonitor_division P D removes the
\* division, monitor_division P D answers that it is monitored already and
\* adds no second entry, and a cycle visits no division twice.
C36_RestartKeepsDivisionIds ==
    /\ (/\ Command(UnmonitorDivision, 2)
        /\ ParseInt(Words[3]).ok
        /\ last_update.write = "written"
        /\ Reloaded(last_update.before)
        /\ RegisteredDivision(last_update.before, Str(Words[2]), ParseInt(Words[3]).n))
       => /\ ReplyKinds \subseteq { "removed_last", "stopped_division" }
          /\ ~RegisteredDivision(Now, Str(Words[2]), ParseInt(Words[3]).n)
    /\ (/\ Command(MonitorDivision, 2)
        /\ ParseInt(Words[3]).ok
        /\ Reloaded(last_update.before)
        /\ RegisteredDivision(last_update.before, Str(Words[2]), ParseInt(Words[3]).n))
       => /\ last_update.replies = << Reply("already_monitoring") >>
          /\ RegistryUntouched
    /\ \A i, j \in DOMAIN CycleKeys(permits) :
           i # j => CycleKeys(permits)[i] # CycleKeys(permits)[j]

\* ------------------------------------- claims on commands and cycles

\* C37: processing a command leaves the availability store as it is, in
\* memory and on disk; no key of the store is ever dropped, so a division
\* that was removed and is monitored again is diffed, at its next visit,
\* against the set the store still holds for it.
C37_CommandsLeaveStore ==
    [][/\ polled' # polled =>
              /\ previous_availability' = previous_availability
              /\ state_file' = state_file
       /\ \A k \in DOMAIN previous_availability :
              k \in DOMAIN previous_availability'
       /\ (pc = "cycle" /\ queue # << >> /\ pc' = "cycle") =>
              last_step'.previous =
                  IF Head(queue) \in DOMAIN previous_availability
                  THEN previous_availability[Head(queue)]
                  ELSE {}]_vars

\* C37 witness: division 371 was removed by one command and added again by
\* the next, and the cycle after that visits it with the set stored before
\* the removal.
C37_Witness ==
    /\ polled = 2
    /\ last_update.handler = "monitor_division"
    /\ ~RegisteredDivision(last_update.before, "250014", 371)
    /\ Visited /\ ~last_step.first
    /\ last_step.key = StateKey("250014", "371")
    /\ last_step.previous = { Strftime(<<2025, 7, 9>>) }
    /\ boot = "json"

\* The keys of the divisions the registry holds now.
RegistryKeysNow ==
    LET keys == CycleKeys(PermitsView(registry, heap))
    IN  { keys[i] : i \in DOMAIN keys }

\* C34: the commands of a poll are processed to the end before a cycle
\* runs and none is processed during one; a cycle goes over the registry
\* as it is when the cycle starts: every division the registry holds then,
\* one added by the last command included, is fetched before the cycle
\* ends, and no division is fetched that the registry does not hold.
C34_CommandsThenCycle ==
    /\ [](pc = "cycle" =>
            /\ { queue[i] : i \in DOMAIN queue } \cup DOMAIN cycle_log
                   = RegistryKeysNow
            /\ Visited => last_step.key \in RegistryKeysNow)
    /\ [][/\ polled' # polled => (pc = "idle" /\ pc' = "idle")
          /\ (pc = "cycle" /\ pc' = "idle") =>
                 DOMAIN cycle_log' = RegistryKeysNow]_vars

\* ------------------------------------------------ claims on the process

\* The loop of run() has been entered.
InLoop == sched.at \in { "top", "polling", "polled", "cycle", "sleep" }

\* C31: once the loop is entered, no error of the poll, of a command, of a
\* fetch, of a notification or of a save ends it: check_telegram_commands
\* returns again and again; and the loop is entered only when every
\* credential is set.
C31_LoopNeverEnds ==
    /\ [](InLoop => <>(sched.at = "polled"))
    /\ [](InLoop => sched.env = Credentials)
    /\ [][InLoop => InLoop']_vars

\* C31 witness: the loop polls after a cycle that raised and a command
\* whose write failed.
C31_Witness ==
    /\ sched.at = "polled"
    /\ sched.raised
    /\ last_end.kind = "aborted"
    /\ last_update.write = "open_failed"
    /\ last_update.handler = "unmonitor_division"

\* ------------------------------------------- claims on permit-monitor.py

\* An entry of the fetch whose notification the run owes: its date is in
\* the configured range, it has availability, and the row the runs before
\* left for it is absent, 0 or lower.
Owed(info) ==
    /\ InRange(DbStrptime(info.date))
    /\ info.available > 0
    /\ Notifies(info, sqlite.before)

\* C33: a run of the SQLite monitor that ends notifies of every date in
\* the configured range that its fetch reports with availability and that
\* the run before recorded as absent, as 0 or with a lower count.
C33_NewAvailabilityNotifies ==
    sqlite.at = "done" =>
        \A i \in 1..Len(sqlite.current) :
            Owed(sqlite.current[i]) =>
                sqlite.current[i].key \in sqlite.notifications

====
